---- MODULE Spec2Model ----
(***************************************************************************)
(* X-Ray: trace builder (xray-sdk), sampling policy, ingestion and query   *)
(* routes (xray-api) over the relational schema.                           *)
(*                                                                         *)
(* Conventions                                                             *)
(*   - an optional JS/SQL value (undefined, NULL) is None == <<>>, a       *)
(*     present one is Some(x) == <<x>>;                                    *)
(*   - a JS object used as a map is a set of <<key, value>> pairs;         *)
(*   - a real number is a fraction [num, den] compared by cross            *)
(*     multiplication (IEEE-754 rounding is not modelled);                 *)
(*   - candidates are integers: two candidates are the same object iff     *)
(*     they are the same integer.                                          *)
(***************************************************************************)
EXTENDS Integers, Sequences, FiniteSets, TLC

VARIABLES
    \* ---- xray-sdk: one XRaySDK instance and the Run it started
    sampling,       \* XRaySDK.sampling, shared by the Run and its Steps
    status,         \* Run.status
    completedAt,    \* Run.completedAt
    output,         \* Run.output
    metadata,       \* Run.metadata
    steps,          \* Run.steps
    now,            \* the wall clock read by new Date()
    outbox,         \* fetch() requests dispatched by Run.send
    log,            \* console.error lines written by the SDK
    caller,         \* control state of the pipeline code calling the SDK
    lastRun,        \* history: the last complete/fail call
    lastOp,         \* history: the last Step recording call
    ncalls,         \* history: number of SDK calls made so far
    \* ---- sampling policy applied to one input
    samplerIn,
    samplerOut,
    \* ---- Step.recordFiltering applied to one input on a new Step
    filterIn,
    filterOut,
    \* ---- a second XRaySDK instance and its Run, given the same calls
    twin,
    \* ---- xray-api: the PostgreSQL store and the requests being served
    dbRuns,         \* committed rows of table runs, in heap order
    dbSteps,        \* committed rows of table steps
    dbCandidates,   \* committed rows of table candidates
    reqs,           \* POST /runs requests: handler position, client, transaction
    queryRes,       \* the last response of POST /runs/query
    fetch,          \* the GET /runs/:id request being served and its response
    list            \* the GET /runs request being served and its response

sdkVars == <<sampling, status, completedAt, output, metadata, steps, now,
             outbox, log, caller, lastRun, lastOp, ncalls>>
samplerVars == <<samplerIn, samplerOut, filterIn, filterOut, twin>>
dbVars == <<dbRuns, dbSteps, dbCandidates>>
readVars == <<queryRes, fetch, list>>
apiVars == <<dbRuns, dbSteps, dbCandidates, reqs, readVars>>
vars == <<sdkVars, samplerVars, apiVars>>

-----------------------------------------------------------------------------
(* Bounds of the model *)

MaxCalls == 3
MaxClock == 1
MaxSampleLen == 12
MaxRequests == 2

-----------------------------------------------------------------------------
(* Values *)

None == <<>>
Some(x) == <<x>>
IsSet(o) == o # <<>>
Val(o) == o[1]

Range(s) == { s[i] : i \in 1..Len(s) }
Max(a, b) == IF a >= b THEN a ELSE b
Min(a, b) == IF a <= b THEN a ELSE b

\* Math.floor in place of Math.ceil
Ceil_floor(n, r) == (n * r.num) \div r.den

\* Math.ceil(n * r) for a rate r = num/den, n >= 0
Ceil(n, r) == (n * r.num + r.den - 1) \div r.den

Rate(n, d) == [num |-> n, den |-> d]

\* Opaque pipeline values; "cyclic" stands for a value JSON.stringify rejects
Values == {"v1", "cyclic"}
Serializable(v) == v # "cyclic"

\* { ...a, ...b } on maps
Spread(o) == IF IsSet(o) THEN Val(o) ELSE {}
Merge(a, b) == { p \in a : \A q \in b : q[1] # p[1] } \cup b

RunId == "run-1"
PipelineName == "competitor_selection"
RunInput == "v1"

-----------------------------------------------------------------------------
(* xray-sdk: sampling policy (Step.sampleCandidates) *)

MinRejectedSample == 5

DefaultSampling ==
    [keepAllOutputs |-> TRUE, keepThresholdCandidates |-> 10, sampleRate |-> Rate(1, 100)]

\* Array.prototype.slice(0, end) for end >= 0
slice(s, end) == SubSeq(s, 1, Min(end, Len(s)))

\* Array.prototype.includes on an array of candidates
includes(s, c) == \E i \in 1..Len(s) : s[i] = c

\* candidates.map((c) => ({ data: c, status, rejectionFilter }))
tag(candidates, st, rejectionFilter) ==
    [i \in 1..Len(candidates) |->
        [data |-> candidates[i], status |-> st, rejectionFilter |-> rejectionFilter]]

\* keepThresholdCandidates more of the rejected candidates are kept
sampleCandidates_nearCutoff(cfg, candidates, st, rejectionFilter) ==
    IF st = "accepted" /\ cfg.keepAllOutputs
    THEN tag(candidates, st, None)
    ELSE IF st = "rejected"
    THEN LET sampleSize == Ceil(Len(candidates), cfg.sampleRate)
             sampled == slice(candidates, Max(sampleSize, MinRejectedSample)
                                              + cfg.keepThresholdCandidates)
         IN  tag(sampled, st, rejectionFilter)
    ELSE tag(candidates, st, None)

\* the rate-based reduction applied to every disposition
sampleCandidates_allSampled(cfg, candidates, st, rejectionFilter) ==
    tag(slice(candidates, Max(Ceil(Len(candidates), cfg.sampleRate), MinRejectedSample)),
        st, IF st = "rejected" THEN rejectionFilter ELSE None)

sampleCandidates(cfg, candidates, st, rejectionFilter) ==
    IF st = "accepted" /\ cfg.keepAllOutputs
    THEN tag(candidates, st, None)
    ELSE IF st = "rejected"
    THEN LET sampleSize == Ceil(Len(candidates), cfg.sampleRate)
             sampled == slice(candidates, Max(sampleSize, MinRejectedSample))
         IN  tag(sampled, st, rejectionFilter)
    ELSE tag(candidates, st, None)

-----------------------------------------------------------------------------
(* xray-sdk: Step *)

\* new Step(runId, stepName, stepType, stepIndex, sampling); id is a fresh uuid
newStep(id, runId, stepName, stepType, stepIndex, t) ==
    [id |-> id, runId |-> runId, stepName |-> stepName, stepType |-> stepType,
     stepIndex |-> stepIndex, startedAt |-> t, completedAt |-> None,
     input |-> None, output |-> None,
     candidatesIn |-> None, candidatesOut |-> None,
     candidates |-> <<>>, reasoning |-> None, filtersApplied |-> <<>>,
     metadata |-> None]

recordInput(s, v) == [s EXCEPT !.input = Some(v)]

recordOutput(s, v, t) == [s EXCEPT !.output = Some(v), !.completedAt = Some(t)]

\* candidatesOut assigned whatever the status
recordCandidates_anyDisposition(s, cfg, candidates, st) ==
    LET sampled == sampleCandidates(cfg, candidates, st, None)
    IN  [s EXCEPT !.candidates = @ \o sampled,
                  !.candidatesOut = Some(Len(candidates))]

recordCandidates(s, cfg, candidates, st) ==
    LET sampled == sampleCandidates(cfg, candidates, st, None)
    IN  [s EXCEPT !.candidates = @ \o sampled,
                  !.candidatesOut = IF st = "accepted" THEN Some(Len(candidates)) ELSE @]

\* the share kept instead of the share eliminated
eliminationRate_shareKept(nIn, nOut) ==
    IF nIn > 0 THEN [k |-> "fin", num |-> nOut, den |-> nIn]
    ELSE IF nOut = 0 THEN [k |-> "nan", num |-> 0, den |-> 1]
    ELSE [k |-> "-inf", num |-> 0, den |-> 1]

\* 1 - candidatesOut.length / candidatesIn.length in JS arithmetic:
\* 0/0 is NaN, n/0 is Infinity
eliminationRate(nIn, nOut) ==
    IF nIn > 0 THEN [k |-> "fin", num |-> nIn - nOut, den |-> nIn]
    ELSE IF nOut = 0 THEN [k |-> "nan", num |-> 0, den |-> 1]
    ELSE [k |-> "-inf", num |-> 0, den |-> 1]

\* the filter compares positions instead of looking each element up
rejected_byPosition(candidatesIn, candidatesOut) ==
    SelectSeq(candidatesIn,
              LAMBDA c : ~ \E i \in 1..Min(Len(candidatesIn), Len(candidatesOut)) :
                              candidatesIn[i] = c /\ candidatesOut[i] = c)

\* candidatesIn.filter((c) => !candidatesOut.includes(c))
rejected(candidatesIn, candidatesOut) ==
    SelectSeq(candidatesIn, LAMBDA c : ~ includes(candidatesOut, c))

\* this.filtersApplied = [ ... ] in place of the push
recordFiltering_overwriting(s, cfg, candidatesIn, candidatesOut, filterName, filterType, parameters) ==
    LET fa == [filterName |-> filterName, filterType |-> filterType,
               parameters |-> parameters,
               candidateBefore |-> Len(candidatesIn),
               candidatesAfter |-> Len(candidatesOut),
               eliminationRate |-> eliminationRate(Len(candidatesIn), Len(candidatesOut))]
        rejectedSampled ==
            sampleCandidates(cfg, rejected(candidatesIn, candidatesOut), "rejected",
                             Some(filterName))
        accepted == sampleCandidates(cfg, candidatesOut, "accepted", None)
    IN  [s EXCEPT !.candidatesIn = Some(Len(candidatesIn)),
                  !.candidatesOut = Some(Len(candidatesOut)),
                  !.filtersApplied = <<fa>>,
                  !.candidates = (@ \o rejectedSampled) \o accepted]

recordFiltering(s, cfg, candidatesIn, candidatesOut, filterName, filterType, parameters) ==
    LET fa == [filterName |-> filterName, filterType |-> filterType,
               parameters |-> parameters,
               candidateBefore |-> Len(candidatesIn),
               candidatesAfter |-> Len(candidatesOut),
               eliminationRate |-> eliminationRate(Len(candidatesIn), Len(candidatesOut))]
        rejectedSampled ==
            sampleCandidates(cfg, rejected(candidatesIn, candidatesOut), "rejected",
                             Some(filterName))
        accepted == sampleCandidates(cfg, candidatesOut, "accepted", None)
    IN  [s EXCEPT !.candidatesIn = Some(Len(candidatesIn)),
                  !.candidatesOut = Some(Len(candidatesOut)),
                  !.filtersApplied = Append(@, fa),
                  !.candidates = (@ \o rejectedSampled) \o accepted]

recordLLMDecision(s, reasoning, candidatesOut) ==
    [s EXCEPT !.reasoning = Some(reasoning),
              !.stepType = "llm",
              !.candidatesOut = IF IsSet(candidatesOut) THEN candidatesOut ELSE @]

\* this.metadata = metadata
setMetadata_replacing(s, m) == [s EXCEPT !.metadata = Some(m)]

setMetadata(s, m) == [s EXCEPT !.metadata = Some(Merge(Spread(@), m))]

\* toJSON without the candidates
Step_toJSON_withoutCandidates(s) ==
    [id |-> s.id, runId |-> s.runId, stepName |-> s.stepName, stepType |-> s.stepType,
     stepIndex |-> s.stepIndex, startedAt |-> s.startedAt, completedAt |-> s.completedAt,
     durationMs |-> IF IsSet(s.completedAt) THEN Some(Val(s.completedAt) - s.startedAt)
                    ELSE None,
     input |-> s.input, output |-> s.output,
     candidatesIn |-> s.candidatesIn, candidatesOut |-> s.candidatesOut,
     candidates |-> <<>>, reasoning |-> s.reasoning,
     filtersApplied |-> s.filtersApplied, metadata |-> s.metadata]

Step_toJSON(s) ==
    [id |-> s.id, runId |-> s.runId, stepName |-> s.stepName, stepType |-> s.stepType,
     stepIndex |-> s.stepIndex, startedAt |-> s.startedAt, completedAt |-> s.completedAt,
     durationMs |-> IF IsSet(s.completedAt) THEN Some(Val(s.completedAt) - s.startedAt)
                    ELSE None,
     input |-> s.input, output |-> s.output,
     candidatesIn |-> s.candidatesIn, candidatesOut |-> s.candidatesOut,
     candidates |-> s.candidates, reasoning |-> s.reasoning,
     filtersApplied |-> s.filtersApplied, metadata |-> s.metadata]


-----------------------------------------------------------------------------
(* xray-sdk: Run *)

\* one-based step indices
addStep_oneBased(stps, stepName, stepType, t) ==
    Append(stps, newStep(<<RunId, Len(stps) + 1>>, RunId, stepName, stepType, Len(stps) + 1, t))

\* Run.addStep: the new Step's index is this.steps.length; ids are fresh uuids
addStep(stps, stepName, stepType, t) ==
    Append(stps, newStep(<<RunId, Len(stps) + 1>>, RunId, stepName, stepType, Len(stps), t))

\* the payload object literal built by Run.send (same fields as Run.toJSON)
Run_toJSON(st, cAt, out, meta, stps) ==
    [id |-> RunId, pipelineName |-> PipelineName, status |-> st,
     startedAt |-> 0, completedAt |-> cAt, input |-> Some(RunInput),
     output |-> out, metadata |-> meta,
     steps |-> [i \in 1..Len(stps) |-> Step_toJSON(stps[i])]]

\* JSON.stringify throws a TypeError on a value it cannot serialise
canStringify(payload) ==
    /\ \A v \in Range(payload.input) \cup Range(payload.output) : Serializable(v)
    /\ \A m \in Range(payload.metadata) : \A p \in m : Serializable(p[2])
    /\ \A i \in 1..Len(payload.steps) :
          /\ \A v \in Range(payload.steps[i].input) \cup Range(payload.steps[i].output) :
                Serializable(v)
          /\ \A m \in Range(payload.steps[i].metadata) : \A p \in m : Serializable(p[2])

\* JSON.stringify writes NaN and the infinities as null and omits undefined
jsonNumber(x) == IF x.k = "fin" THEN x ELSE [k |-> "null", num |-> 0, den |-> 1]

stringify(payload) ==
    [payload EXCEPT !.steps =
        [i \in 1..Len(payload.steps) |->
            [payload.steps[i] EXCEPT !.filtersApplied =
                [j \in 1..Len(payload.steps[i].filtersApplied) |->
                    [payload.steps[i].filtersApplied[j] EXCEPT
                        !.eliminationRate = jsonNumber(@)]]]]]

\* send without its try/catch, awaiting the request
send_awaiting(st, cAt, out, meta, stps, box, lg) ==
    LET payload == Run_toJSON(st, cAt, out, meta, stps)
    IN  IF canStringify(payload)
        THEN [outbox |-> Append(box, [body |-> stringify(payload), state |-> "pending"]),
              log |-> lg, raised |-> FALSE, awaited |-> TRUE]
        ELSE [outbox |-> box, log |-> lg, raised |-> TRUE, awaited |-> FALSE]

\* Run.send on the Run's fields after the terminal assignment.  The result is
\* the new outbox and log, whether an exception leaves send (raised) and
\* whether send's promise settles only when the request does (awaited).
send(st, cAt, out, meta, stps, box, lg) ==
    LET payload == Run_toJSON(st, cAt, out, meta, stps)
    IN  IF canStringify(payload)
        THEN [outbox |-> Append(box, [body |-> stringify(payload), state |-> "pending"]),
              log |-> lg, raised |-> FALSE, awaited |-> FALSE]
        ELSE [outbox |-> box, log |-> Append(lg, "Error sending trace"),
              raised |-> FALSE, awaited |-> FALSE]

\* what the code after `await run.complete(...)` / `await run.fail(...)` sees
resume(sent) ==
    IF sent.raised THEN "raised" ELSE IF sent.awaited THEN "blocked" ELSE "ready"

-----------------------------------------------------------------------------------------------------------------------------------------------------
(* xray-api: schema and the rows POST /runs writes *)

QueryLimit == 100

\* a JSON body field that is absent reads as undefined
Undefined == "undefined"

\* JS truthiness of an opaque value: 0, false and "" are falsy
Falsy == {"0", "false", "''"}
Truthy(o) == IsSet(o) /\ Val(o) \notin Falsy

\* x ? JSON.stringify(x) : null
stringifyOrNull(o) == IF Truthy(o) THEN o ELSE None

\* parameter list of INSERT INTO runs; xmin is the inserting transaction
RunRow(run, x) ==
    [id |-> run.id, pipeline_name |-> run.pipelineName, status |-> run.status,
     started_at |-> run.startedAt, completed_at |-> run.completedAt,
     input |-> run.input, output |-> stringifyOrNull(run.output),
     metadata |-> run.metadata, xmin |-> x]

\* step.candidatesOut bound to candidates_in and step.candidatesIn to candidates_out
StepRow_countsSwapped(run, step, x) ==
    [id |-> step.id, run_id |-> run.id, step_name |-> step.stepName,
     step_type |-> step.stepType, step_index |-> step.stepIndex,
     started_at |-> step.startedAt, completed_at |-> step.completedAt,
     duration_ms |-> step.durationMs,
     input |-> stringifyOrNull(step.input), output |-> stringifyOrNull(step.output),
     candidates_in |-> step.candidatesOut, candidates_out |-> step.candidatesIn,
     reasoning |-> step.reasoning, filters_applied |-> step.filtersApplied,
     metadata |-> step.metadata, xmin |-> x]

\* parameter list of INSERT INTO steps: run_id is the run's id, not step.runId
StepRow(run, step, x) ==
    [id |-> step.id, run_id |-> run.id, step_name |-> step.stepName,
     step_type |-> step.stepType, step_index |-> step.stepIndex,
     started_at |-> step.startedAt, completed_at |-> step.completedAt,
     duration_ms |-> step.durationMs,
     input |-> stringifyOrNull(step.input), output |-> stringifyOrNull(step.output),
     candidates_in |-> step.candidatesIn, candidates_out |-> step.candidatesOut,
     reasoning |-> step.reasoning, filters_applied |-> step.filtersApplied,
     metadata |-> step.metadata, xmin |-> x]

\* parameter list of INSERT INTO candidates; id is DEFAULT uuid_generate_v4(),
\* a fresh value per row: here the row's place in its transaction
CandidateRow(step, k, x) ==
    [id |-> <<x, step.id, k>>, step_id |-> step.id,
     candidate_data |-> step.candidates[k].data, status |-> step.candidates[k].status,
     rejection_filter |-> step.candidates[k].rejectionFilter, xmin |-> x]

\* table runs without its primary key
RunConstraint_noPrimaryKey(row, visible) ==
    IF row.pipeline_name = Undefined \/ row.status = Undefined
    THEN "null value violates not-null constraint"
    ELSE "ok"

\* constraints of table runs: PRIMARY KEY (id), NOT NULL columns
RunConstraint(row, visible) ==
    IF \E old \in Range(visible) : old.id = row.id
    THEN "duplicate key value violates runs_pkey"
    ELSE IF row.pipeline_name = Undefined \/ row.status = Undefined
    THEN "null value violates not-null constraint"
    ELSE "ok"

\* constraints of table steps: PRIMARY KEY (id), run_id REFERENCES runs(id), NOT NULL
StepConstraint(row, visible, visibleRuns) ==
    IF \E old \in Range(visible) : old.id = row.id
    THEN "duplicate key value violates steps_pkey"
    ELSE IF row.step_name = Undefined \/ row.step_type = Undefined
    THEN "null value violates not-null constraint"
    ELSE IF ~ \E old \in Range(visibleRuns) : old.id = row.run_id
    THEN "violates foreign key constraint steps_run_id_fkey"
    ELSE "ok"

\* constraints of table candidates: step_id REFERENCES steps(id), NOT NULL
\* (every candidate of the bodies below carries data, so candidate_data is set)
CandidateConstraint(row, visibleSteps) ==
    IF row.status = Undefined
    THEN "null value violates not-null constraint"
    ELSE IF ~ \E old \in Range(visibleSteps) : old.id = row.step_id
    THEN "violates foreign key constraint candidates_step_id_fkey"
    ELSE "ok"

(* Request bodies of POST /runs *)

BodyStep(id, name, type, idx, cIn, cOut, cands) ==
    [id |-> id, runId |-> "r", stepName |-> name, stepType |-> type, stepIndex |-> idx,
     startedAt |-> 0, completedAt |-> Some(1), durationMs |-> Some(1),
     input |-> None, output |-> None, candidatesIn |-> cIn, candidatesOut |-> cOut,
     candidates |-> cands, reasoning |-> None, filtersApplied |-> <<>>, metadata |-> None]

BodyRun(id, name, st, stps) ==
    [id |-> id, pipelineName |-> name, status |-> st, startedAt |-> 0,
     completedAt |-> Some(1), input |-> Some("v1"), output |-> Some("v1"),
     metadata |-> None, steps |-> stps]

Cand(d, st) == [data |-> d, status |-> st, rejectionFilter |-> None]

\* a run of two steps with candidates; a run of one step; a run whose second
\* step has no name; the three-step run api(5000), filter 5000->450, filter
\* 450->30; a run of QueryLimit + 1 steps of elimination rate
\* decreasing from 1 (nothing kept); a later run whose steps are listed
\* against their index order; a run whose opaque values are 0, false and "";
\* a run whose steps took no candidates in (0 or no count), with every kind
\* of count out
Body(name) ==
    CASE name = "A" ->
           BodyRun("A", "competitor_selection", "completed",
                   << BodyStep(<<"A", 1>>, "filter_price", "filter", 0, Some(3), Some(1),
                               <<Cand(1, "rejected"), Cand(2, "accepted")>>),
                      BodyStep(<<"A", 2>>, "rank", "rank", 1, None, Some(1),
                               <<Cand(2, "accepted")>>) >>)
      [] name = "B" ->
           BodyRun("B", "fraud_detection", "failed",
                   << BodyStep(<<"B", 1>>, "check_velocity", "filter", 0, Some(4), Some(0), <<>>) >>)
      [] name = "C" ->
           BodyRun("C", "competitor_selection", "completed",
                   << BodyStep(<<"C", 1>>, "filter_price", "filter", 0, Some(2), Some(1),
                               <<Cand(1, "accepted")>>),
                      BodyStep(<<"C", 2>>, Undefined, "filter", 1, Some(1), Some(1), <<>>) >>)
      [] name = "E" ->
           BodyRun("E", "competitor_selection", "completed",
                   << BodyStep(<<"E", 0>>, "search", "api", 0, None, Some(5000), <<>>),
                      BodyStep(<<"E", 1>>, "filter_price", "filter", 1, Some(5000), Some(450), <<>>),
                      BodyStep(<<"E", 2>>, "filter_rating", "filter", 2, Some(450), Some(30), <<>>) >>)
      [] name = "W" ->
           BodyRun("W", "moderation", "completed",
                   [i \in 1..(QueryLimit + 1) |->
                       BodyStep(<<"W", i>>, "toxicity_check", "transform", i - 1,
                                Some(2 * QueryLimit + 2), Some(i - 1), <<>>)])
      [] name = "D" ->
           [BodyRun("D", "fraud_detection", "failed",
                    << BodyStep(<<"D", 2>>, "score", "llm", 1, Some(2), Some(1),
                                <<Cand(5, "accepted")>>),
                       BodyStep(<<"D", 1>>, "check_velocity", "filter", 0, Some(3), Some(2),
                                <<Cand(4, "rejected"), Cand(5, "accepted"),
                                  Cand(6, "accepted")>>) >>)
            EXCEPT !.startedAt = 1]
      [] name = "F" ->
           [BodyRun("F", "moderation", "completed",
                    << [BodyStep(<<"F", 1>>, "toxicity_check", "transform", 0, None, None, <<>>)
                        EXCEPT !.input = Some("false"), !.output = Some("''"),
                               !.metadata = Some({<<"k", "0">>})] >>)
            EXCEPT !.input = Some("0"), !.output = Some("0"),
                   !.metadata = Some({<<"flag", "false">>})]
      [] name = "Z" ->
           BodyRun("Z", "fraud_detection", "completed",
                   << BodyStep(<<"Z", 1>>, "check_velocity", "filter", 0, Some(0), Some(0), <<>>),
                      BodyStep(<<"Z", 2>>, "check_velocity", "filter", 1, Some(0), Some(2), <<>>),
                      BodyStep(<<"Z", 3>>, "check_velocity", "filter", 2, Some(0), None, <<>>),
                      BodyStep(<<"Z", 4>>, "score", "llm", 3, None, Some(1), <<>>),
                      BodyStep(<<"Z", 5>>, "score", "llm", 4, None, None, <<>>) >>)

ReqIds == 1..MaxRequests

NoTx == [runs |-> <<>>, steps |-> <<>>, candidates |-> <<>>]
NewRequest ==
    [pc |-> "new", body |-> "none", si |-> 0, ci |-> 0, held |-> FALSE, released |-> 0,
     conn |-> "none", tx |-> "none", rows |-> NoTx, error |-> "none", responses |-> <<>>,
     issued |-> <<>>]

\* no GET /runs/:id request yet
NoFetch ==
    [pc |-> "idle", id |-> "none", run |-> None, steps |-> <<>>, candidates |-> <<>>,
     response |-> None]

\* no GET /runs request yet
NoList ==
    [pc |-> "idle", query |-> "none", page |-> 1, limit |-> 20, rows |-> None, total |-> None,
     response |-> None, matching |-> None]

InitApi ==
    /\ dbRuns = <<>>
    /\ dbSteps = <<>>
    /\ dbCandidates = <<>>
    /\ reqs = [r \in ReqIds |-> NewRequest]
    /\ queryRes = None
    /\ fetch = NoFetch
    /\ list = NoList

-----------------------------------------------------------------------------
(* Inputs of the trace builder *)

StepTypes == {"filter", "transform"}
Dispositions == {"accepted", "rejected", "filtered_out"}
Messages == {"boom"}
DeliveryOutcomes == {"ok", "non2xx", "network", "timeout"}
Samplings ==
    { [keepAllOutputs |-> k, keepThresholdCandidates |-> 10, sampleRate |-> r] :
        k \in BOOLEAN, r \in {Rate(1, 100), Rate(1, 2)} }

\* candidate arrays handed to recordCandidates
CandSeqs == { <<>>, <<2, 1>>, <<1, 2, 3, 4, 5, 6, 7>> }
\* <<before, after>> arrays handed to recordFiltering: a proper filter, a
\* filter that keeps a repeated element, an after-array that is no sub-array
\* of the before-array, and two empty arrays
FilterCases ==
    { << <<1, 2, 3, 4, 5, 6, 7>>, <<2, 4>> >>,
      << <<3, 1, 3>>, <<3>> >>,
      << <<1>>, <<1, 2>> >>,
      << <<>>, <<>> >> }
MetaMaps == { {<<"k", "v2">>}, {<<"j", "v1">>}, {<<"k", "v1">>, <<"j", "v2">>} }
LLMCounts == {None, Some(3)}

NoRun == [n |-> 0, op |-> "none", arg |-> "none"]
NoOp ==
    [n |-> 0, op |-> "none", idx |-> 0, a |-> <<>>, b |-> <<>>, st |-> "none", rej |-> <<>>,
     m |-> {}, f |-> <<>>]

-----------------------------------------------------------------------------
(* Trace builder: the state after new XRaySDK(config).startRun(...) *)

\* no second instance
NoTwin == [sampling |-> DefaultSampling, steps |-> <<>>]

InitFilter ==
    /\ filterIn = [cfg |-> DefaultSampling, before |-> <<>>, after |-> <<>>]
    /\ filterOut = None
    /\ twin = NoTwin

InitSampler ==
    /\ samplerIn = [cfg |-> DefaultSampling, candidates |-> <<>>, st |-> "accepted",
                    rejectionFilter |-> None]
    /\ samplerOut = None
    /\ InitFilter

InitRun(cfgs, metas) ==
    /\ sampling \in cfgs
    /\ status = "running"
    /\ completedAt = None
    /\ output = None
    /\ metadata \in metas
    /\ steps = <<>>
    /\ now = 0
    /\ outbox = <<>>
    /\ log = <<>>
    /\ caller = "ready"
    /\ lastRun = NoRun
    /\ lastOp = NoOp
    /\ ncalls = 0

runVars == <<status, completedAt, output, metadata>>

\* time passes between two calls
Tick ==
    /\ now < MaxClock
    /\ now' = now + 1
    /\ UNCHANGED <<sampling, runVars, steps, outbox, log, caller, lastRun, lastOp, ncalls,
                   samplerVars, apiVars>>

\* the pipeline makes one more SDK call: it is running, not waiting on the
\* SDK and not unwinding an exception of the SDK
Call ==
    /\ caller = "ready"
    /\ ncalls < MaxCalls
    /\ ncalls' = ncalls + 1

AddStep(stepName, stepType) ==
    /\ Call
    /\ steps' = addStep(steps, stepName, stepType, now)
    /\ UNCHANGED <<sampling, runVars, now, outbox, log, caller, lastRun, lastOp, samplerVars, apiVars>>

\* one recording call on the Step at position i
Record(i, s, op) ==
    /\ Call
    /\ steps' = [steps EXCEPT ![i] = s]
    /\ lastOp' = [op EXCEPT !.n = ncalls + 1]
    /\ UNCHANGED <<sampling, runVars, now, outbox, log, caller, lastRun, samplerVars, apiVars>>

RecordInput(i, v) ==
    Record(i, recordInput(steps[i], v), [NoOp EXCEPT !.op = "recordInput", !.idx = i])

RecordOutput(i, v) ==
    Record(i, recordOutput(steps[i], v, now), [NoOp EXCEPT !.op = "recordOutput", !.idx = i])

RecordCandidates(i, c, st) ==
    Record(i, recordCandidates(steps[i], sampling, c, st),
           [NoOp EXCEPT !.op = "recordCandidates", !.idx = i, !.a = c, !.st = st])

RecordFilteringAs(i, cIn, cOut, filterName, filterType, parameters) ==
    Record(i, recordFiltering(steps[i], sampling, cIn, cOut, filterName, filterType, parameters),
           [NoOp EXCEPT !.op = "recordFiltering", !.idx = i, !.a = cIn, !.b = cOut,
                        !.rej = rejected(cIn, cOut),
                        !.f = <<filterName, filterType, parameters>>])

RecordFiltering(i, cIn, cOut) == RecordFilteringAs(i, cIn, cOut, "price_range", "range", None)

RecordLLMDecision(i, n) ==
    Record(i, recordLLMDecision(steps[i], "Generated using GPT-4", n),
           [NoOp EXCEPT !.op = "recordLLMDecision", !.idx = i, !.a = n])

SetMetadata(i, m) ==
    Record(i, setMetadata(steps[i], m), [NoOp EXCEPT !.op = "setMetadata", !.idx = i, !.m = m])

\* Run.complete(output)
Complete(o) ==
    /\ Call
    /\ LET sent == send("completed", Some(now), Some(o), metadata, steps, outbox, log)
       IN  /\ output' = Some(o)
           /\ completedAt' = Some(now)
           /\ status' = "completed"
           /\ outbox' = sent.outbox
           /\ log' = sent.log
           /\ caller' = resume(sent)
    /\ lastRun' = [n |-> lastRun.n + 1, op |-> "complete", arg |-> o]
    /\ UNCHANGED <<sampling, metadata, steps, now, lastOp, samplerVars, apiVars>>

\* fail leaves the completion timestamp unset
Fail_noTimestamp(msg) ==
    /\ Call
    /\ LET meta == Some(Merge(Spread(metadata), {<<"error", msg>>}))
           sent == send("failed", completedAt, output, meta, steps, outbox, log)
       IN  /\ status' = "failed"
           /\ metadata' = meta
           /\ outbox' = sent.outbox
           /\ log' = sent.log
           /\ caller' = resume(sent)
    /\ lastRun' = [n |-> lastRun.n + 1, op |-> "fail", arg |-> msg]
    /\ UNCHANGED <<sampling, completedAt, output, steps, now, lastOp, samplerVars, apiVars>>

\* Run.fail(error)
Fail(msg) ==
    /\ Call
    /\ LET meta == Some(Merge(Spread(metadata), {<<"error", msg>>}))
           sent == send("failed", Some(now), output, meta, steps, outbox, log)
       IN  /\ completedAt' = Some(now)
           /\ status' = "failed"
           /\ metadata' = meta
           /\ outbox' = sent.outbox
           /\ log' = sent.log
           /\ caller' = resume(sent)
    /\ lastRun' = [n |-> lastRun.n + 1, op |-> "fail", arg |-> msg]
    /\ UNCHANGED <<sampling, output, steps, now, lastOp, samplerVars, apiVars>>

\* a request that failed is sent again
Deliver_retrying(k, outcome) ==
    /\ outbox[k].state = "pending"
    /\ outbox' = IF outcome \in {"network", "timeout"}
                 THEN Append([outbox EXCEPT ![k].state = outcome],
                             [body |-> outbox[k].body, state |-> "pending"])
                 ELSE [outbox EXCEPT ![k].state = outcome]
    /\ log' = IF outcome \in {"network", "timeout"}
              THEN Append(log, "FAILED TO SEND TRACE") ELSE log
    /\ caller' = IF caller = "blocked" THEN "ready" ELSE caller
    /\ UNCHANGED <<sampling, runVars, steps, now, lastRun, lastOp, ncalls, samplerVars, apiVars>>

\* the fetch() promise of request k settles; a rejection reaches the .catch
Deliver(k, outcome) ==
    /\ outbox[k].state = "pending"
    /\ outbox' = [outbox EXCEPT ![k].state = outcome]
    /\ log' = IF outcome \in {"network", "timeout"}
              THEN Append(log, "FAILED TO SEND TRACE") ELSE log
    /\ caller' = IF caller = "blocked" THEN "ready" ELSE caller
    /\ UNCHANGED <<sampling, runVars, steps, now, lastRun, lastOp, ncalls, samplerVars, apiVars>>

(* Run lifecycle and transport: an SDK with the default configuration; the
   Steps record one input of each kind *)
Init ==
    /\ InitRun({DefaultSampling}, {None, Some({<<"k", "v1">>})})
    /\ InitSampler
    /\ InitApi

Next ==
    \/ Tick
    \/ AddStep("step", "filter")
    \/ \E i \in 1..Len(steps) : RecordInput(i, "v1")
    \/ \E i \in 1..Len(steps) : RecordOutput(i, "cyclic")
    \/ \E i \in 1..Len(steps) : RecordCandidates(i, <<2, 1>>, "accepted")
    \/ \E i \in 1..Len(steps) : RecordFiltering(i, <<3, 1, 3>>, <<3>>)
    \/ \E i \in 1..Len(steps) : RecordLLMDecision(i, Some(3))
    \/ \E i \in 1..Len(steps) : SetMetadata(i, {<<"j", "v1">>})
    \/ \E o \in Values : Complete(o)
    \/ \E m \in Messages : Fail(m)
    \/ \E k \in 1..Len(outbox), r \in DeliveryOutcomes : Deliver(k, r)

Spec == Init /\ [][Next]_vars

(* Step recording: any configuration, any sequence of recording calls *)
InitStep ==
    /\ InitRun(Samplings, {None})
    /\ InitSampler
    /\ InitApi

NextStep ==
    \/ Tick
    \/ \E t \in StepTypes : AddStep("step", t)
    \/ \E i \in 1..Len(steps), v \in Values : RecordInput(i, v)
    \/ \E i \in 1..Len(steps), v \in Values : RecordOutput(i, v)
    \/ \E i \in 1..Len(steps), c \in CandSeqs, st \in Dispositions : RecordCandidates(i, c, st)
    \/ \E i \in 1..Len(steps), f \in FilterCases : RecordFiltering(i, f[1], f[2])
    \/ \E i \in 1..Len(steps), n \in LLMCounts : RecordLLMDecision(i, n)
    \/ \E i \in 1..Len(steps), m \in MetaMaps : SetMetadata(i, m)

SpecStep == InitStep /\ [][NextStep]_vars

(* Filters applied in sequence: Steps that record several filters, of
   different names, types and parameters, between other recording calls *)

Filters ==
    { <<"price_range", "range", Some({<<"min", "v1">>, <<"max", "v2">>})>>,
      <<"min_rating", "threshold", Some({<<"min", "v2">>})>>,
      <<"dedupe", "set", None>> }

NextFilters ==
    \/ AddStep("step", "filter")
    \/ \E i \in 1..Len(steps), c \in FilterCases, f \in Filters :
          RecordFilteringAs(i, c[1], c[2], f[1], f[2], f[3])
    \/ \E i \in 1..Len(steps) : RecordCandidates(i, <<2, 1>>, "rejected")
    \/ \E i \in 1..Len(steps) : RecordLLMDecision(i, Some(3))
    \/ \E i \in 1..Len(steps) : SetMetadata(i, {<<"j", "v1">>})

SpecFilters == Init /\ [][NextFilters]_vars

(* Two Trace Builders whose sampling configurations differ in
   keepThresholdCandidates only, given the same recording calls at the same
   times *)

ThresholdCounts == {0, 3}

InitTwin ==
    /\ InitRun(Samplings, {None})
    /\ samplerIn = [cfg |-> DefaultSampling, candidates |-> <<>>, st |-> "accepted",
                    rejectionFilter |-> None]
    /\ samplerOut = None
    /\ filterIn = [cfg |-> DefaultSampling, before |-> <<>>, after |-> <<>>]
    /\ filterOut = None
    /\ twin \in { [sampling |-> [sampling EXCEPT !.keepThresholdCandidates = t],
                    steps |-> <<>>] : t \in ThresholdCounts }
    /\ InitApi

\* one call made on both Runs
TwinCall(stps, twinStps) ==
    /\ Call
    /\ steps' = stps
    /\ twin' = [twin EXCEPT !.steps = twinStps]
    /\ UNCHANGED <<sampling, runVars, now, outbox, log, caller, lastRun, lastOp,
                   samplerIn, samplerOut, filterIn, filterOut, apiVars>>

TwinAddStep(stepName, stepType) ==
    TwinCall(addStep(steps, stepName, stepType, now),
             addStep(twin.steps, stepName, stepType, now))

TwinRecordCandidates(i, c, st) ==
    TwinCall([steps EXCEPT ![i] = recordCandidates(@, sampling, c, st)],
             [twin.steps EXCEPT ![i] = recordCandidates(@, twin.sampling, c, st)])

TwinRecordFiltering(i, cIn, cOut) ==
    TwinCall([steps EXCEPT ![i] =
                 recordFiltering(@, sampling, cIn, cOut, "price_range", "range", None)],
             [twin.steps EXCEPT ![i] =
                 recordFiltering(@, twin.sampling, cIn, cOut, "price_range", "range", None)])

NextTwin ==
    \/ \E t \in StepTypes : TwinAddStep("step", t)
    \/ \E i \in 1..Len(steps), c \in CandSeqs, st \in Dispositions :
          TwinRecordCandidates(i, c, st)
    \/ \E i \in 1..Len(steps), f \in FilterCases : TwinRecordFiltering(i, f[1], f[2])

SpecTwin == InitTwin /\ [][NextTwin]_vars

-----------------------------------------------------------------------------
(* Sampling policy alone: Step.sampleCandidates applied to one input *)

SampleLens == 0..MaxSampleLen \cup {4550}
SampleRates == {Rate(0, 1), Rate(1, 100), Rate(1, 3), Rate(1, 2), Rate(1, 1)}
Ascending(n) == [i \in 1..n |-> i]
Descending(n) == [i \in 1..n |-> n + 1 - i]

InitSamplerInputs ==
    /\ InitRun({DefaultSampling}, {None})
    /\ samplerIn \in
         { [cfg |-> [keepAllOutputs |-> k, keepThresholdCandidates |-> 10, sampleRate |-> r],
            candidates |-> c, st |-> st, rejectionFilter |-> f] :
             k \in BOOLEAN, r \in SampleRates, st \in Dispositions,
             f \in {None, Some("price_range")},
             c \in { Ascending(n) : n \in SampleLens } \cup { Descending(n) : n \in SampleLens } }
    /\ samplerOut = None
    /\ InitFilter
    /\ InitApi

Sample ==
    /\ samplerOut = None
    /\ samplerOut' = Some(sampleCandidates(samplerIn.cfg, samplerIn.candidates, samplerIn.st,
                                           samplerIn.rejectionFilter))
    /\ UNCHANGED <<sdkVars, samplerIn, filterIn, filterOut, twin, apiVars>>

NextSampler == Sample

SpecSampler == InitSamplerInputs /\ [][NextSampler]_vars

-----------------------------------------------------------------------------
(* Step.recordFiltering applied to one pair of arrays on a new Step *)

\* before-arrays of every length up to the bound, each with the after-arrays
\* that keep its first a elements and one that is longer than it; and the
\* filters of 5000 candidates that keep 450 and 30
FilterPairs ==
    { <<Ascending(b), Ascending(a)>> : b \in 0..MaxSampleLen, a \in 0..(MaxSampleLen + 1) }
        \cup { <<Ascending(5000), Ascending(450)>>, <<Ascending(5000), Ascending(30)>> }

InitFilterInputs ==
    /\ InitRun({DefaultSampling}, {None})
    /\ samplerIn = [cfg |-> DefaultSampling, candidates |-> <<>>, st |-> "accepted",
                    rejectionFilter |-> None]
    /\ samplerOut = None
    /\ filterIn \in { [cfg |-> DefaultSampling, before |-> p[1], after |-> p[2]] :
                         p \in { x \in FilterPairs : Len(x[2]) <= Len(x[1]) + 1 } }
    /\ filterOut = None
    /\ twin = NoTwin
    /\ InitApi

Filter ==
    /\ filterOut = None
    /\ filterOut' = Some(recordFiltering(newStep(<<RunId, 1>>, RunId, "step", "filter", 0, 0),
                                         filterIn.cfg, filterIn.before, filterIn.after,
                                         "price_range", "range", None))
    /\ UNCHANGED <<sdkVars, samplerIn, samplerOut, filterIn, twin, apiVars>>

NextFilter == Filter

SpecFilter == InitFilterInputs /\ [][NextFilter]_vars

-----------------------------------------------------------------------------
(* xray-api: POST /runs, one action per awaited statement *)

\* const run: Run = req.body, parsed by express.json(): a body sent by the SDK
\* is the text of the r-th request the Run dispatched
run(r) == IF reqs[r].body = "sdk" THEN outbox[r].body ELSE Body(reqs[r].body)

\* the loop over run.steps taken from the last element to the first
step_lastFirst(r) == run(r).steps[Len(run(r).steps) + 1 - reqs[r].si]

\* for (const step of run.steps): the step of the si-th iteration
step(r) == run(r).steps[reqs[r].si]

\* rows a statement of request r sees: committed ones and its transaction's own
Visible(r, table, committed) == committed \o reqs[r].rows[table]

\* any row another open transaction wrote into the table makes the INSERT wait
Locked_wholeTable(r, table, id) ==
    \E q \in ReqIds \ {r} : reqs[q].tx = "open" /\ reqs[q].rows[table] # <<>>

\* a row with this key written by another transaction that is still open: the
\* INSERT waits for that transaction to end
Locked(r, table, id) ==
    \E q \in ReqIds \ {r} :
        reqs[q].tx = "open" /\ \E row \in Range(reqs[q].rows[table]) : row.id = id

\* the handler's position after the step at si: the step's candidates, the
\* next step, or COMMIT
AfterStep(req, stps) ==
    IF Len(stps[req.si].candidates) > 0
    THEN [req EXCEPT !.pc = "insert_candidate", !.ci = 1]
    ELSE IF req.si < Len(stps) THEN [req EXCEPT !.pc = "insert_step", !.si = @ + 1]
    ELSE [req EXCEPT !.pc = "commit"]

AfterCandidate(req, stps) ==
    IF req.ci < Len(stps[req.si].candidates) THEN [req EXCEPT !.ci = @ + 1]
    ELSE IF req.si < Len(stps) THEN [req EXCEPT !.pc = "insert_step", !.si = @ + 1, !.ci = 0]
    ELSE [req EXCEPT !.pc = "commit", !.ci = 0]

\* a statement throws: control enters the catch block, which runs ROLLBACK
Throw(req, msg) ==
    [req EXCEPT !.pc = "rollback", !.error = msg,
                !.tx = IF @ = "open" THEN "aborted" ELSE @]

\* an exception leaves the handler: it has sent nothing; whether a response is
\* written for it depends on the framework (Express 4 drops the rejected
\* promise, Express 5 passes it to the error handling)
Escaped(req, handled) ==
    [req EXCEPT !.pc = "done",
                !.responses = IF handled
                              THEN Append(@, [code |-> 500, by |-> "framework",
                                              success |-> FALSE, error |-> "none"])
                              ELSE @]

\* const client = await pool.connect(), outside the try block
Connect(r, body, reachable, handled) ==
    /\ reqs[r].pc = "new"
    /\ reqs' = [reqs EXCEPT ![r] =
                  IF reachable
                  THEN [@ EXCEPT !.pc = "begin", !.body = body, !.held = TRUE, !.conn = "ok"]
                  ELSE Escaped([@ EXCEPT !.body = body], handled)]
    /\ UNCHANGED <<sdkVars, samplerVars, dbVars, readVars>>

\* BEGIN is not sent: every later statement commits on its own
Begin_skipped(r) ==
    /\ reqs[r].pc = "begin"
    /\ reqs' = [reqs EXCEPT ![r] =
                  IF @.conn = "ok" THEN [@ EXCEPT !.pc = "insert_run"]
                  ELSE Throw(@, "Connection terminated")]
    /\ UNCHANGED <<sdkVars, samplerVars, dbVars, readVars>>

\* await client.query("BEGIN")
Begin(r) ==
    /\ reqs[r].pc = "begin"
    /\ reqs' = [reqs EXCEPT ![r] =
                  IF @.conn = "ok" THEN [@ EXCEPT !.pc = "insert_run", !.tx = "open"]
                  ELSE Throw(@, "Connection terminated")]
    /\ UNCHANGED <<sdkVars, samplerVars, dbVars, readVars>>

\* history: the INSERT statements a request has sent to the store, each with
\* its table, the step it belongs to (none for the run row), the step's index
\* and the candidate's place in its step (0 for a step row)
Issued(req, table, row) ==
    [req EXCEPT !.issued =
        Append(@, [table |-> table,
                   step |-> IF table = "runs" THEN <<>>
                            ELSE IF table = "steps" THEN row.id ELSE row.step_id,
                   index |-> IF table = "steps" THEN row.step_index ELSE -1,
                   k |-> IF table = "candidates" THEN row.id[3] ELSE 0])]

\* one INSERT of request r into `table`: the row goes to the open transaction,
\* or straight to the table when no transaction is open (autocommit)
Insert(r, table, row, verdict, next) ==
    IF reqs[r].conn # "ok"
    THEN /\ reqs' = [reqs EXCEPT ![r] = Throw(@, "Connection terminated")]
         /\ UNCHANGED dbVars
    ELSE IF verdict # "ok"
    THEN /\ reqs' = [reqs EXCEPT ![r] = Throw(Issued(@, table, row), verdict)]
         /\ UNCHANGED dbVars
    ELSE IF reqs[r].tx = "open"
    THEN /\ reqs' = [reqs EXCEPT ![r] =
                        [Issued(next, table, row) EXCEPT !.rows[table] = Append(@, row)]]
         /\ UNCHANGED dbVars
    ELSE /\ reqs' = [reqs EXCEPT ![r] = Issued(next, table, row)]
         /\ dbRuns' = IF table = "runs" THEN Append(dbRuns, row) ELSE dbRuns
         /\ dbSteps' = IF table = "steps" THEN Append(dbSteps, row) ELSE dbSteps
         /\ dbCandidates' = IF table = "candidates" THEN Append(dbCandidates, row)
                            ELSE dbCandidates

\* await client.query(`INSERT INTO runs ...`)
InsertRun(r) ==
    /\ reqs[r].pc = "insert_run"
    /\ ~ (reqs[r].conn = "ok" /\ Locked(r, "runs", run(r).id))
    /\ LET row == RunRow(run(r), r)
           next == IF Len(run(r).steps) > 0
                   THEN [reqs[r] EXCEPT !.pc = "insert_step", !.si = 1]
                   ELSE [reqs[r] EXCEPT !.pc = "commit"]
       IN  Insert(r, "runs", row, RunConstraint(row, Visible(r, "runs", dbRuns)), next)
    /\ UNCHANGED <<sdkVars, samplerVars, readVars>>

\* await client.query(`INSERT INTO steps ...`) for the step at si
InsertStep(r) ==
    /\ reqs[r].pc = "insert_step"
    /\ ~ (reqs[r].conn = "ok" /\ Locked(r, "steps", step(r).id))
    /\ LET row == StepRow(run(r), step(r), r)
       IN  Insert(r, "steps", row,
                  StepConstraint(row, Visible(r, "steps", dbSteps),
                                 Visible(r, "runs", dbRuns)),
                  AfterStep(reqs[r], run(r).steps))
    /\ UNCHANGED <<sdkVars, samplerVars, readVars>>

\* await client.query(`INSERT INTO candidates ...`) for the candidate at ci
InsertCandidate(r) ==
    /\ reqs[r].pc = "insert_candidate"
    /\ LET row == CandidateRow(step(r), reqs[r].ci, r)
       IN  Insert(r, "candidates", row,
                  CandidateConstraint(row, Visible(r, "steps", dbSteps)),
                  AfterCandidate(reqs[r], run(r).steps))
    /\ UNCHANGED <<sdkVars, samplerVars, readVars>>

\* await client.query("COMMIT"); res.status(201).json(...); finally release.
\* A COMMIT that fails has committed nothing.
Commit(r) ==
    /\ reqs[r].pc = "commit"
    /\ IF reqs[r].conn # "ok"
       THEN /\ reqs' = [reqs EXCEPT ![r] = Throw(@, "Connection terminated")]
            /\ UNCHANGED dbVars
       ELSE /\ dbRuns' = dbRuns \o reqs[r].rows.runs
            /\ dbSteps' = dbSteps \o reqs[r].rows.steps
            /\ dbCandidates' = dbCandidates \o reqs[r].rows.candidates
            /\ reqs' = [reqs EXCEPT ![r] =
                          [@ EXCEPT !.pc = "done", !.tx = "none", !.rows = NoTx,
                                    !.held = FALSE, !.released = @ + 1,
                                    !.responses = Append(@, [code |-> 201, by |-> "handler",
                                                             success |-> TRUE,
                                                             error |-> "none"])]]
    /\ UNCHANGED <<sdkVars, samplerVars, readVars>>

\* client.release() at the end of the catch block instead of in finally
Rollback_leaking(r, handled) ==
    /\ reqs[r].pc = "rollback"
    /\ reqs' = [reqs EXCEPT ![r] =
                  IF @.conn = "ok"
                  THEN [@ EXCEPT !.pc = "done", !.tx = "none", !.rows = NoTx,
                                 !.held = FALSE, !.released = @ + 1,
                                 !.responses = Append(@, [code |-> 500, by |-> "handler",
                                                          success |-> FALSE,
                                                          error |-> reqs[r].error])]
                  ELSE Escaped(@, handled)]
    /\ UNCHANGED <<sdkVars, samplerVars, dbVars, readVars>>

\* catch: await client.query("ROLLBACK"); res.status(500).json(...); finally
\* release.  When ROLLBACK throws, the finally block still releases the client
\* and the exception leaves the handler.
Rollback(r, handled) ==
    /\ reqs[r].pc = "rollback"
    /\ reqs' = [reqs EXCEPT ![r] =
                  IF @.conn = "ok"
                  THEN [@ EXCEPT !.pc = "done", !.tx = "none", !.rows = NoTx,
                                 !.held = FALSE, !.released = @ + 1,
                                 !.responses = Append(@, [code |-> 500, by |-> "handler",
                                                          success |-> FALSE,
                                                          error |-> reqs[r].error])]
                  ELSE Escaped([@ EXCEPT !.held = FALSE, !.released = @ + 1], handled)]
    /\ UNCHANGED <<sdkVars, samplerVars, dbVars, readVars>>

\* the connection of request r's client is lost: the server ends the session
\* and with it the open transaction; the client's next statement throws
Disconnect(r) ==
    /\ reqs[r].held
    /\ reqs[r].conn = "ok"
    /\ reqs' = [reqs EXCEPT ![r] = [@ EXCEPT !.conn = "lost", !.tx = "none", !.rows = NoTx]]
    /\ UNCHANGED <<sdkVars, samplerVars, dbVars, readVars>>

(* xray-api: POST /runs/query with minEliminationRate *)

\* s.candidates_in > 0 AND (1.0 - s.candidates_out::float / s.candidates_in) > $1
Matches_strict(s, t) ==
    /\ IsSet(s.candidates_in)
    /\ Val(s.candidates_in) > 0
    /\ IsSet(s.candidates_out)
    /\ (Val(s.candidates_in) - Val(s.candidates_out)) * t.den > t.num * Val(s.candidates_in)

\* s.candidates_in > 0 AND (1.0 - s.candidates_out::float / s.candidates_in) >= $1;
\* a comparison with NULL is not true, and the planner puts the cheaper
\* qualifier candidates_in > 0 first
Matches(s, t) ==
    /\ IsSet(s.candidates_in)
    /\ Val(s.candidates_in) > 0
    /\ IsSet(s.candidates_out)
    /\ (Val(s.candidates_in) - Val(s.candidates_out)) * t.den >= t.num * Val(s.candidates_in)

\* WHERE without the qualifier s.candidates_in > 0
Positive_unguarded(s) == TRUE

\* the first qualifier, s.candidates_in > 0: NULL > 0 is not true
Positive(s) == IsSet(s.candidates_in) /\ Val(s.candidates_in) > 0

\* the second qualifier divides by s.candidates_in; it is evaluated for the
\* rows the first qualifier lets through, and a float division by zero raises
\* "division by zero" (an operator applied to NULL yields NULL instead)
DividesByZero(s) ==
    Positive(s) /\ s.candidates_in = Some(0) /\ IsSet(s.candidates_out)

\* the SELECT list over runs r JOIN steps s; NULLIF guards its division
QueryRow(r, s) ==
    [run_id |-> r.id, pipeline_name |-> r.pipeline_name, started_at |-> r.started_at,
     step_name |-> s.step_name, step_type |-> s.step_type,
     candidates_in |-> s.candidates_in, candidates_out |-> s.candidates_out,
     elimination_rate |-> Rate(Val(s.candidates_in) - Val(s.candidates_out),
                               Val(s.candidates_in)),
     filters_applied |-> s.filters_applied]

\* a.elimination_rate > b.elimination_rate, both denominators positive
RateGT(a, b) == a.num * b.den > b.num * a.den

\* ORDER BY elimination_rate DESC; rows of equal rate come in an order the
\* store chooses: here by step_index and inserting transaction, either way
SortsBefore(a, b, tie) ==
    LET ra == Rate(Val(a.candidates_in) - Val(a.candidates_out), Val(a.candidates_in))
        rb == Rate(Val(b.candidates_in) - Val(b.candidates_out), Val(b.candidates_in))
        ka == a.step_index * (MaxRequests + 1) + a.xmin
        kb == b.step_index * (MaxRequests + 1) + b.xmin
    IN  \/ RateGT(ra, rb)
        \/ ~ RateGT(rb, ra) /\ (IF tie = "asc" THEN ka < kb ELSE ka > kb)

\* the rows of the elimination query, the tables read in heap order: FROM runs r JOIN steps s ON r.id =
\* s.run_id WHERE ... ORDER BY elimination_rate DESC LIMIT 100
EliminationRows(t, tie) ==
    LET joined == SelectSeq(dbSteps, LAMBDA s : \E r \in Range(dbRuns) : r.id = s.run_id)
        hits == SelectSeq(joined, LAMBDA s : Matches(s, t))
        sorted == SortSeq(hits, LAMBDA a, b : SortsBefore(a, b, tie))
    IN  [i \in 1..Min(Len(sorted), QueryLimit) |->
            QueryRow(CHOOSE r \in Range(dbRuns) : r.id = sorted[i].run_id, sorted[i])]

\* POST /runs/query with body {minEliminationRate: t}; an error of the query
\* reaches the catch block.  The model follows one query
EliminationQuery(t, tie) ==
    /\ queryRes = None
    /\ queryRes' =
          IF \E s \in Range(dbSteps) :
                (\E r \in Range(dbRuns) : r.id = s.run_id) /\ DividesByZero(s)
          THEN Some([code |-> 500, success |-> FALSE, error |-> "division by zero",
                     threshold |-> t, data |-> <<>>])
          ELSE Some([code |-> 200, success |-> TRUE, error |-> "none", threshold |-> t,
                     data |-> EliminationRows(t, tie)])
    /\ UNCHANGED <<sdkVars, samplerVars, dbVars, reqs, fetch, list>>

(* xray-api: GET /runs/:id, one action per awaited query *)

\* the columns SELECT * returns (xmin is a system column)
Columns(row) == [c \in DOMAIN row \ {"xmin"} |-> row[c]]

\* { ...rec, field: value }
With(rec, field, value) ==
    [c \in DOMAIN rec \cup {field} |-> IF c = field THEN value ELSE rec[c]]

\* identifiers the input routine of type uuid rejects
Malformed == {"not-a-uuid"}
IsUuid(id) == id \notin Malformed

\* res.status(500).json({ success: false, error: error.message })
ServerError(msg) == [code |-> 500, success |-> FALSE, error |-> msg, data |-> None]

\* res.status(404).json({ success: false, error: "Run not found" })
NotFound == [code |-> 404, success |-> FALSE, error |-> "Run not found", data |-> None]

\* SELECT * FROM runs WHERE id = $1
SelectRun(id) == SelectSeq(dbRuns, LAMBDA r : r.id = id)

\* the steps of the run in the order of the table
SelectSteps_unordered(id) == SelectSeq(dbSteps, LAMBDA s : s.run_id = id)

\* SELECT * FROM steps WHERE run_id = $1 ORDER BY step_index ASC
SelectSteps(id) ==
    SortSeq(SelectSeq(dbSteps, LAMBDA s : s.run_id = id),
            LAMBDA a, b : a.step_index < b.step_index)

\* SELECT * FROM candidates WHERE step_id = $1, for the step row st
SelectCandidates(st) == SelectSeq(dbCandidates, LAMBDA c : c.step_id = st.id)

\* res.json({ success: true, data: { ...run, steps } }) with
\* steps[k] = { ...step, candidates: candidatesResult.rows }
FetchResponse(f) ==
    [code |-> 200, success |-> TRUE, error |-> "none",
     data |-> Some(With(Columns(Val(f.run)), "steps",
                        [k \in 1..Len(f.steps) |->
                            With(Columns(f.steps[k]), "candidates",
                                 [i \in 1..Len(Val(f.candidates[k])) |->
                                     Columns(Val(f.candidates[k])[i])])]))]

\* the handler has every result it awaits: it answers
Answer(f) ==
    IF \A k \in 1..Len(f.steps) : IsSet(f.candidates[k])
    THEN [f EXCEPT !.pc = "done", !.response = Some(FetchResponse(f))]
    ELSE f

\* a query of the handler throws: the catch block answers 500
FetchFailed(f, msg) == [f EXCEPT !.pc = "done", !.response = Some(ServerError(msg))]

\* a request GET /runs/:id arrives; await pool.query("SELECT * FROM runs ...")
GetRun(id, up) ==
    /\ fetch.pc \in {"idle", "done"}
    /\ LET f == [NoFetch EXCEPT !.id = id]
           rows == SelectRun(id)
       IN  fetch' = IF ~ up THEN FetchFailed(f, "Connection terminated")
                    ELSE IF ~ IsUuid(id)
                    THEN FetchFailed(f, "invalid input syntax for type uuid")
                    ELSE IF Len(rows) = 0
                    THEN [f EXCEPT !.pc = "done", !.response = Some(NotFound)]
                    ELSE [f EXCEPT !.pc = "steps", !.run = Some(rows[1])]
    /\ UNCHANGED <<sdkVars, samplerVars, dbVars, reqs, queryRes, list>>

\* await pool.query("SELECT * FROM steps ..."); with no step Promise.all
\* resolves at once
GetSteps(up) ==
    /\ fetch.pc = "steps"
    /\ LET rows == SelectSteps(fetch.id)
       IN  fetch' = IF ~ up THEN FetchFailed(fetch, "Connection terminated")
                    ELSE Answer([fetch EXCEPT !.pc = "candidates", !.steps = rows,
                                              !.candidates = [k \in 1..Len(rows) |-> None]])
    /\ UNCHANGED <<sdkVars, samplerVars, dbVars, reqs, queryRes, list>>

\* one of the queries of Promise.all settles:
\* await pool.query("SELECT * FROM candidates ...") for the step at k
GetCandidates(k, up) ==
    /\ fetch.pc = "candidates"
    /\ k \in 1..Len(fetch.steps)
    /\ fetch.candidates[k] = None
    /\ fetch' = IF ~ up THEN FetchFailed(fetch, "Connection terminated")
                ELSE Answer([fetch EXCEPT
                                !.candidates[k] = Some(SelectCandidates(fetch.steps[k]))])
    /\ UNCHANGED <<sdkVars, samplerVars, dbVars, reqs, queryRes, list>>

(* xray-api: GET /runs?page=&limit=&pipelineName=&status= *)

DefaultPage == 1
DefaultLimit == 20

\* parseInt of a query parameter: None is NaN (no parameter, no digits)
parseInt(o) ==
    IF o = None THEN None
    ELSE CASE Val(o) = "0" -> Some(0)
           [] Val(o) = "1" -> Some(1)
           [] Val(o) = "2" -> Some(2)
           [] Val(o) = "3" -> Some(3)
           [] Val(o) = "-1" -> Some(-1)
           [] Val(o) = "2.5" -> Some(2)
           [] OTHER -> None

\* parseInt(x) || d: NaN and 0 are falsy
OrDefault(n, d) == IF n = None \/ Val(n) = 0 THEN d ELSE Val(n)

\* the WHERE clause built from the parameters that are given
Conditions(q, r) ==
    /\ IsSet(q.pipelineName) => r.pipeline_name = Val(q.pipelineName)
    /\ IsSet(q.status) => r.status = Val(q.status)

\* ORDER BY started_at ASC
Newer_oldestFirst(a, b, tie) ==
    \/ a.started_at < b.started_at
    \/ a.started_at = b.started_at /\ (IF tie = "asc" THEN a.xmin < b.xmin ELSE a.xmin > b.xmin)

\* ORDER BY started_at DESC; runs of equal start time come in an order the
\* store chooses
Newer(a, b, tie) ==
    \/ a.started_at > b.started_at
    \/ a.started_at = b.started_at /\ (IF tie = "asc" THEN a.xmin < b.xmin ELSE a.xmin > b.xmin)

\* select * from runs [WHERE ...] ORDER BY started_at DESC LIMIT limit OFFSET offset
PageRows(q, limit, offset, tie) ==
    LET hits == SelectSeq(dbRuns, LAMBDA r : Conditions(q, r))
        sorted == SortSeq(hits, LAMBDA a, b : Newer(a, b, tie))
        page == SubSeq(sorted, offset + 1, Min(offset + limit, Len(sorted)))
    IN  [i \in 1..Len(page) |-> Columns(page[i])]

\* select count(*) from runs [WHERE ...]
CountRows(q) == Len(SelectSeq(dbRuns, LAMBDA r : Conditions(q, r)))

\* res.json({ success: true, data: { runs, pagination } })
ListResponse(l) ==
    [code |-> 200, success |-> TRUE, error |-> "none",
     data |-> Some([runs |-> Val(l.rows),
                    pagination |-> [page |-> l.page, limit |-> l.limit,
                                    total |-> Val(l.total),
                                    totalPages |-> Ceil(Val(l.total), Rate(1, l.limit))]])]

\* the request being served: a new one when none is pending
Listing(q) ==
    IF list.pc = "pending" THEN list
    ELSE [NoList EXCEPT !.pc = "pending", !.query = q,
                        !.page = OrDefault(parseInt(q.page), DefaultPage),
                        !.limit = OrDefault(parseInt(q.limit), DefaultLimit)]

\* Promise.all has both results: the handler answers
ListAnswer(l) ==
    IF IsSet(l.rows) /\ IsSet(l.total)
    THEN [l EXCEPT !.pc = "done", !.response = Some(ListResponse(l))]
    ELSE l

\* a query of the handler throws: the catch block answers 500
ListFailed(l, msg) == [l EXCEPT !.pc = "done", !.response = Some(ServerError(msg))]

\* the page query of Promise.all settles (the first of the two to settle
\* belongs to a request that has just arrived); the model follows one request.
\* History: `matching` is the number of runs the filters matched in the state
\* the page was read from
ListPage(q, tie, up) ==
    /\ list.pc # "done"
    /\ list.pc = "pending" => (q = list.query /\ list.rows = None)
    /\ LET l == Listing(q)
           offset == (l.page - 1) * l.limit
       IN  list' = IF ~ up THEN ListFailed(l, "Connection terminated")
                   ELSE IF l.limit < 0 THEN ListFailed(l, "LIMIT must not be negative")
                   ELSE IF offset < 0 THEN ListFailed(l, "OFFSET must not be negative")
                   ELSE ListAnswer([l EXCEPT !.rows = Some(PageRows(q, l.limit, offset, tie)),
                                             !.matching = Some(CountRows(q))])
    /\ UNCHANGED <<sdkVars, samplerVars, dbVars, reqs, queryRes, fetch>>

\* the count query of Promise.all settles
ListCount(q, up) ==
    /\ list.pc # "done"
    /\ list.pc = "pending" => (q = list.query /\ list.total = None)
    /\ LET l == Listing(q)
       IN  list' = IF ~ up THEN ListFailed(l, "Connection terminated")
                   ELSE ListAnswer([l EXCEPT !.total = Some(CountRows(q))])
    /\ UNCHANGED <<sdkVars, samplerVars, dbVars, reqs, queryRes, fetch>>

-----------------------------------------------------------------------------
(* Ingestion: concurrent requests, lost connections, an unreachable store *)

InitApiOnly ==
    /\ InitRun({DefaultSampling}, {None})
    /\ InitSampler
    /\ InitApi

IngestBodies == {"A", "B", "C"}

NextApi ==
    \/ \E r \in ReqIds, b \in IngestBodies, up \in BOOLEAN, h \in BOOLEAN : Connect(r, b, up, h)
    \/ \E r \in ReqIds : Begin(r)
    \/ \E r \in ReqIds : InsertRun(r)
    \/ \E r \in ReqIds : InsertStep(r)
    \/ \E r \in ReqIds : InsertCandidate(r)
    \/ \E r \in ReqIds : Commit(r)
    \/ \E r \in ReqIds, h \in BOOLEAN : Rollback(r, h)
    \/ \E r \in ReqIds : Disconnect(r)

SpecApi == InitApiOnly /\ [][NextApi]_vars

(* Queries over a store filled by requests served one after the other *)

QueryBodies == {"A", "E", "W", "Z"}
Thresholds == {Rate(0, 1), Rate(1, 2), Rate(9, 10), Rate(1, 1)}
Idle == \A q \in ReqIds : reqs[q].pc \in {"new", "done"}

NextQuery ==
    \/ \E r \in ReqIds, b \in QueryBodies : Idle /\ Connect(r, b, TRUE, FALSE)
    \/ \E r \in ReqIds : Begin(r)
    \/ \E r \in ReqIds : InsertRun(r)
    \/ \E r \in ReqIds : InsertStep(r)
    \/ \E r \in ReqIds : InsertCandidate(r)
    \/ \E r \in ReqIds : Commit(r)
    \/ \E r \in ReqIds : Rollback(r, FALSE)
    \/ \E t \in Thresholds, tie \in {"asc", "desc"} : EliminationQuery(t, tie)

SpecQuery == InitApiOnly /\ [][NextQuery]_vars

(* Fetches of one Run interleaved with the statements of concurrent ingestions *)

FetchBodies == {"A", "D", "F"}
FetchIds == {"A", "D", "F", "00000000-0000-4000-8000-000000000000"} \cup Malformed

NextFetch ==
    \/ \E r \in ReqIds, b \in FetchBodies : Connect(r, b, TRUE, FALSE)
    \/ \E r \in ReqIds : Begin(r)
    \/ \E r \in ReqIds : InsertRun(r)
    \/ \E r \in ReqIds : InsertStep(r)
    \/ \E r \in ReqIds : InsertCandidate(r)
    \/ \E r \in ReqIds : Commit(r)
    \/ \E r \in ReqIds : Rollback(r, FALSE)
    \/ \E id \in FetchIds, up \in BOOLEAN : GetRun(id, up)
    \/ \E up \in BOOLEAN : GetSteps(up)
    \/ \E k \in 1..Len(fetch.steps), up \in BOOLEAN : GetCandidates(k, up)

SpecFetch == InitApiOnly /\ [][NextFetch]_vars

(* Round trip: the Run built by the SDK, each request it dispatches received
   by POST /runs, and fetches of the Run's identifier *)

NextTrip ==
    \/ AddStep("step", "filter")
    \/ \E i \in 1..Len(steps) : RecordCandidates(i, <<2, 1>>, "accepted")
    \/ \E i \in 1..Len(steps) : RecordFiltering(i, <<3, 1, 3>>, <<3>>)
    \/ \E i \in 1..Len(steps) : RecordLLMDecision(i, Some(3))
    \/ Complete("v1")
    \/ Fail("boom")
    \/ \E r \in ReqIds : Idle /\ r <= Len(outbox) /\ Connect(r, "sdk", TRUE, FALSE)
    \/ \E r \in ReqIds : Begin(r)
    \/ \E r \in ReqIds : InsertRun(r)
    \/ \E r \in ReqIds : InsertStep(r)
    \/ \E r \in ReqIds : InsertCandidate(r)
    \/ \E r \in ReqIds : Commit(r)
    \/ \E r \in ReqIds : Rollback(r, FALSE)
    \/ GetRun(RunId, TRUE)
    \/ GetSteps(TRUE)
    \/ \E k \in 1..Len(fetch.steps) : GetCandidates(k, TRUE)

SpecTrip == Init /\ [][NextTrip]_vars

(* Listings interleaved with the statements of ingestions *)

ListBodies == {"A", "B", "D"}
ListQueries ==
    [page : {None, Some("1"), Some("2"), Some("-1")},
     limit : {None, Some("1"), Some("2"), Some("0")},
     pipelineName : {None, Some("competitor_selection")},
     status : {None, Some("failed")}]

NextList ==
    \/ \E r \in ReqIds, b \in ListBodies : Idle /\ Connect(r, b, TRUE, FALSE)
    \/ \E r \in ReqIds : Begin(r)
    \/ \E r \in ReqIds : InsertRun(r)
    \/ \E r \in ReqIds : InsertStep(r)
    \/ \E r \in ReqIds : InsertCandidate(r)
    \/ \E r \in ReqIds : Commit(r)
    \/ \E r \in ReqIds : Rollback(r, FALSE)
    \/ \E q \in ListQueries, tie \in {"asc", "desc"}, up \in BOOLEAN : ListPage(q, tie, up)
    \/ \E q \in ListQueries, up \in BOOLEAN : ListCount(q, up)

SpecList == InitApiOnly /\ [][NextList]_vars

-----------------------------------------------------------------------------
(* Claims: trace builder *)

\* a recording call was made in this step on the Step at lastOp'.idx
Recorded(op) == lastOp'.n # lastOp.n /\ lastOp'.op = op

\* the candidates a recording call appended to its Step
Appended ==
    LET old == steps[lastOp'.idx].candidates
        new == steps'[lastOp'.idx].candidates
    IN  SubSeq(new, Len(old) + 1, Len(new))

\* C1 (as claimed): once the Run's status has left `running`, no complete or
\* fail call changes its status, completion timestamp, output or metadata.
C1_TerminalOnce ==
    [][status # "running" => UNCHANGED <<status, completedAt, output, metadata>>]_vars

C7_KeepAllOutputs ==
    [][ sampling.keepAllOutputs =>
          /\ (Recorded("recordCandidates") /\ lastOp'.st = "accepted") =>
                Appended = [j \in 1..Len(lastOp'.a) |->
                              [data |-> lastOp'.a[j], status |-> "accepted",
                               rejectionFilter |-> None]]
          /\ Recorded("recordFiltering") =>
                LET after == lastOp'.b
                    nRej == Len(Appended) - Len(after)
                IN  /\ nRej >= 0
                    /\ \A j \in 1..nRej : Appended[j].status = "rejected"
                    /\ SubSeq(Appended, nRej + 1, Len(Appended)) =
                          [j \in 1..Len(after) |->
                              [data |-> after[j], status |-> "accepted",
                               rejectionFilter |-> None]]
      ]_vars

\* C7 witness: seven accepted candidates recorded on a Step that keeps all
\* outputs, all seven retained.
C7_Witness ==
    /\ sampling.keepAllOutputs
    /\ lastOp.op = "recordCandidates"
    /\ lastOp.st = "accepted"
    /\ Len(lastOp.a) = 7
    /\ Len(steps[lastOp.idx].candidates) >= 7
    /\ steps[lastOp.idx].candidates[Len(steps[lastOp.idx].candidates)].data = 7

\* C8: in recordFiltering(before, after) every element of before is in exactly
\* one of the rejected set and the accepted set (after); the Candidates appended
\* are a prefix of the rejected set tagged `rejected` with the filter name,
\* followed by the accepted ones tagged `accepted`.
C8_Partition ==
    [][ Recorded("recordFiltering") =>
          LET before == lastOp'.a
              after == lastOp'.b
              rej == lastOp'.rej
              acc == SelectSeq(Appended, LAMBDA x : x.status = "accepted")
              nRej == Len(Appended) - Len(acc)
          IN  /\ \A i \in 1..Len(before) :
                    (before[i] \in Range(rej)) # (before[i] \in Range(after))
              /\ Range(rej) \subseteq Range(before)
              /\ nRej <= Len(rej)
              /\ \A j \in 1..nRej :
                    Appended[j] = [data |-> rej[j], status |-> "rejected",
                                   rejectionFilter |-> Some("price_range")]
              /\ Len(acc) = Len(after)
              /\ \A j \in 1..Len(after) :
                    /\ Appended[nRej + j].status = "accepted"
                    /\ Appended[nRej + j].data = after[j]
      ]_vars

\* C8 witness: a filter of seven candidates down to two has recorded five
\* rejected and two accepted candidates.
C8_Witness ==
    /\ lastOp.op = "recordFiltering"
    /\ Len(lastOp.a) = 7
    /\ Len(lastOp.b) = 2
    /\ lastOp.rej = <<1, 3, 5, 6, 7>>
    /\ Len(steps[lastOp.idx].candidates) = 7

\* C9 (as claimed): whenever a Step has both candidatesIn and candidatesOut,
\* candidatesOut <= candidatesIn.
C9_OutAtMostIn ==
    \A i \in 1..Len(steps) :
        (IsSet(steps[i].candidatesIn) /\ IsSet(steps[i].candidatesOut)) =>
            Val(steps[i].candidatesOut) <= Val(steps[i].candidatesIn)

\* C10: the k-th Step created has index k-1, and no operation removes,
\* replaces or reorders a Step already in the Run.
C10_StepIndices ==
    [][ /\ Len(steps') >= Len(steps)
        /\ \A k \in 1..Len(steps) :
              steps'[k].id = steps[k].id /\ steps'[k].stepIndex = steps[k].stepIndex
        /\ \A k \in 1..Len(steps') : steps'[k].stepIndex = k - 1
        /\ \A j, k \in 1..Len(steps') : j # k => steps'[j].id # steps'[k].id
      ]_vars

\* C10 witness: two Steps created and a terminal call made.
C10_Witness ==
    /\ Len(steps) = 2
    /\ steps[2].stepIndex = 1
    /\ status # "running"

\* C11: in every state of a Run the completion timestamp is set exactly when
\* the status is not `running`.
C11_CompletedIffTerminal ==
    IsSet(completedAt) <=> status # "running"

\* C11 witness: a Run failed at clock 1 whose payload could not be built
\* carries its completion timestamp.
C11_Witness ==
    /\ status = "failed"
    /\ completedAt = Some(1)
    /\ \E i \in 1..Len(log) : log[i] = "Error sending trace"

\* C12: a request is dispatched only by a complete or fail call, one per call,
\* carrying the terminal status and the completion timestamp the call has just
\* set; nothing is dispatched while the Run is `running`; no other step (a
\* failed request among them) dispatches anything, and a dispatched request is
\* never replaced or sent again.
C12_SingleAttempt ==
    [][ /\ status' = "running" => outbox' = <<>>
        /\ Len(outbox') >= Len(outbox)
        /\ \A k \in 1..Len(outbox) : outbox'[k].body = outbox[k].body
        /\ Len(outbox') # Len(outbox) =>
              /\ lastRun'.n = lastRun.n + 1
              /\ Len(outbox') = Len(outbox) + 1
              /\ outbox'[Len(outbox')].state = "pending"
              /\ outbox'[Len(outbox')].body.status = status'
              /\ outbox'[Len(outbox')].body.status # "running"
              /\ outbox'[Len(outbox')].body.completedAt = completedAt'
              /\ IsSet(outbox'[Len(outbox')].body.completedAt)
      ]_vars

\* C12 witness: the one request of a failed Run has timed out and the pipeline
\* has gone on to make all its calls; nothing else was dispatched.
C12_Witness ==
    /\ Len(outbox) = 1
    /\ outbox[1].state = "timeout"
    /\ outbox[1].body.status = "failed"
    /\ status = "failed"
    /\ ncalls = MaxCalls
    /\ lastRun.n = 1

\* C20: the FilterApplication recorded by recordFiltering on a before-array
\* of length b > 0 and an after-array of length a has candidateBefore = b,
\* candidatesAfter = a and eliminationRate = 1 - a/b, a finite number
\* (b = 5000, a = 450 gives 0.91).
C20_EliminationRate ==
    (IsSet(filterOut) /\ Len(filterIn.before) > 0) =>
        LET b == Len(filterIn.before)
            a == Len(filterIn.after)
            applied == Val(filterOut).filtersApplied
            fa == applied[1]
        IN  /\ Len(applied) = 1
            /\ fa.filterName = "price_range"
            /\ fa.candidateBefore = b
            /\ fa.candidatesAfter = a
            /\ fa.eliminationRate.k = "fin"
            /\ fa.eliminationRate.den > 0
            /\ fa.eliminationRate.num * b = (b - a) * fa.eliminationRate.den
            /\ (b = 5000 /\ a = 450) =>
                  fa.eliminationRate.num * 100 = 91 * fa.eliminationRate.den

\* C20 witness: the filter of 5000 candidates down to 450 has been recorded
\* with rate 0.91.
C20_Witness ==
    /\ IsSet(filterOut)
    /\ Len(filterIn.before) = 5000
    /\ Len(filterIn.after) = 450
    /\ Val(filterOut).candidatesIn = Some(5000)
    /\ Val(filterOut).candidatesOut = Some(450)
    /\ Val(filterOut).filtersApplied[1].eliminationRate = Rate(4550, 5000) @@ [k |-> "fin"]

\* C21 (as claimed): recordFiltering on an empty before-array returns with
\* one FilterApplication recorded whose elimination rate is the number 0.
C21_EmptyBeforeRateZero ==
    (IsSet(filterOut) /\ Len(filterIn.before) = 0) =>
        LET applied == Val(filterOut).filtersApplied
        IN  /\ Len(applied) = 1
            /\ applied[1].candidateBefore = 0
            /\ applied[1].eliminationRate.k = "fin"
            /\ applied[1].eliminationRate.num = 0

\* C23: under every sampling configuration, recordCandidates(c, accepted)
\* sets the Step's candidatesOut to the length of c and recordCandidates with
\* another disposition leaves the Step's candidatesOut and candidatesIn as
\* they were.
C23_AcceptedSetsCountOut ==
    [][ Recorded("recordCandidates") =>
          LET old == steps[lastOp'.idx]
              new == steps'[lastOp'.idx]
          IN  IF lastOp'.st = "accepted"
              THEN new.candidatesOut = Some(Len(lastOp'.a))
              ELSE /\ new.candidatesOut = old.candidatesOut
                   /\ new.candidatesIn = old.candidatesIn
      ]_vars

\* C23 witness: on a Step that does not keep all outputs and had filtered 7
\* candidates down to 2, seven candidates recorded as accepted have set
\* candidatesOut to 7.
C23_Witness ==
    /\ ~ sampling.keepAllOutputs
    /\ lastOp.op = "recordCandidates"
    /\ lastOp.st = "accepted"
    /\ Len(lastOp.a) = 7
    /\ steps[lastOp.idx].candidatesIn = Some(7)
    /\ steps[lastOp.idx].candidatesOut = Some(7)
    /\ Len(steps[lastOp.idx].filtersApplied) = 1

\* C24: for the disposition `accepted` with keepAllOutputs = false and for
\* the disposition `filtered_out`, whatever the sample rate, the sampler
\* retains one Candidate per input candidate, in input order, carrying the
\* candidate as data and the given disposition.
C24_OthersRetainedWhole ==
    ( /\ IsSet(samplerOut)
      /\ \/ samplerIn.st = "accepted" /\ ~ samplerIn.cfg.keepAllOutputs
         \/ samplerIn.st = "filtered_out" ) =>
        LET c == samplerIn.candidates
            kept == Val(samplerOut)
        IN  /\ Len(kept) = Len(c)
            /\ \A i \in 1..Len(c) :
                  kept[i].data = c[i] /\ kept[i].status = samplerIn.st

\* C24 witness: 4550 candidates sampled as `filtered_out` at rate 0.01 with
\* keepAllOutputs = false are all retained.
C24_Witness ==
    /\ IsSet(samplerOut)
    /\ samplerIn.st = "filtered_out"
    /\ ~ samplerIn.cfg.keepAllOutputs
    /\ samplerIn.cfg.sampleRate = Rate(1, 100)
    /\ Len(samplerIn.candidates) = 4550
    /\ Len(Val(samplerOut)) = 4550
    /\ Val(samplerOut)[4550].status = "filtered_out"

\* C27: setMetadata(m) leaves the Step's metadata a map in which every key of
\* m has m's value, every key the Step had that m does not have keeps its
\* value, there is no other key and no key has two values; so the value of a
\* key is the one the last call that carried the key wrote.  Nothing else of
\* the Step changes.
C27_ShallowMerge ==
    [][ Recorded("setMetadata") =>
          LET old == steps[lastOp'.idx]
              new == steps'[lastOp'.idx]
              before == IF old.metadata = None THEN {} ELSE old.metadata[1]
              m == lastOp'.m
          IN  /\ new.metadata # None
              /\ \A p \in m : p \in new.metadata[1]
              /\ \A p \in before : (\A q \in m : q[1] # p[1]) => p \in new.metadata[1]
              /\ \A p \in new.metadata[1] : p \in m \/ p \in before
              /\ \A p, q \in new.metadata[1] : p[1] = q[1] => p = q
              /\ new = [old EXCEPT !.metadata = new.metadata]
      ]_vars

\* C27 witness: a Step whose metadata was {k: v1, j: v2} has received
\* setMetadata({k: v2}): k has the later value and j is kept.
C27_Witness ==
    /\ lastOp.op = "setMetadata"
    /\ lastOp.m = {<<"k", "v2">>}
    /\ steps[lastOp.idx].metadata = Some({<<"k", "v2">>, <<"j", "v2">>})

\* C28 (as claimed): under the default sampling configuration a filter of
\* 5000 candidates down to 30 leaves 100 Candidates on the Step: the 30
\* accepted ones and 70 of the rejected ones (50 sampled at 1% and 20 near
\* the cutoff).
C28_HundredStored ==
    ( /\ IsSet(filterOut)
      /\ filterIn.cfg = DefaultSampling
      /\ Len(filterIn.before) = 5000
      /\ Len(filterIn.after) = 30 ) =>
        LET stored == Val(filterOut).candidates
        IN  /\ Len(SelectSeq(stored, LAMBDA c : c.status = "accepted")) = 30
            /\ Len(SelectSeq(stored, LAMBDA c : c.status # "accepted")) = 70
            /\ Len(stored) = 100

\* C30: a recordFiltering call leaves the Step's filter sequence one entry
\* longer: the entries it had, unchanged and in their order, and then one
\* FilterApplication with the call's filter name, type and parameters and the
\* lengths of the call's before- and after-arrays.  No other call changes the
\* filter sequence of a Step, and a call changes no other Step's.
C30_OneFilterApplicationPerCall ==
    [][ /\ Recorded("recordFiltering") =>
              LET old == steps[lastOp'.idx].filtersApplied
                  new == steps'[lastOp'.idx].filtersApplied
              IN  /\ Len(new) = Len(old) + 1
                  /\ \A j \in 1..Len(old) : new[j] = old[j]
                  /\ new[Len(new)].filterName = lastOp'.f[1]
                  /\ new[Len(new)].filterType = lastOp'.f[2]
                  /\ new[Len(new)].parameters = lastOp'.f[3]
                  /\ new[Len(new)].candidateBefore = Len(lastOp'.a)
                  /\ new[Len(new)].candidatesAfter = Len(lastOp'.b)
        /\ \A i \in 1..Len(steps) :
              (Recorded("recordFiltering") /\ lastOp'.idx = i)
                  \/ steps'[i].filtersApplied = steps[i].filtersApplied
        /\ \A i \in (Len(steps) + 1)..Len(steps') : steps'[i].filtersApplied = <<>>
      ]_vars

\* C30 witness: a Step has recorded the filter price_range and then the
\* filter min_rating; both entries are on the Step in that order, the second
\* with its own parameters and counts 3 and 1.
C30_Witness ==
    /\ lastOp.op = "recordFiltering"
    /\ lastOp.f[1] = "min_rating"
    /\ Len(lastOp.a) = 3 /\ Len(lastOp.b) = 1
    /\ LET applied == steps[lastOp.idx].filtersApplied
       IN  /\ Len(applied) = 2
           /\ applied[1].filterName = "price_range"
           /\ applied[1].candidateBefore = 7
           /\ applied[2].filterName = "min_rating"
           /\ applied[2].filterType = "threshold"
           /\ applied[2].parameters = Some({<<"min", "v2">>})
           /\ applied[2].candidateBefore = 3 /\ applied[2].candidatesAfter = 1

C32_PayloadIsSnapshot ==
    [][ /\ \A k \in 1..Len(outbox) :
              k <= Len(outbox') /\ outbox'[k].body = outbox[k].body
        /\ \A k \in (Len(outbox) + 1)..Len(outbox') :
              LET body == outbox'[k].body
              IN  /\ body.status \in {"completed", "failed"}
                  /\ body.status = status'
                  /\ body.completedAt # None
                  /\ body.output = output'
                  /\ body.metadata = metadata'
                  /\ Len(body.steps) = Len(steps)
                  /\ \A i \in 1..Len(steps) :
                        /\ body.steps[i].stepIndex = i - 1
                        /\ body.steps[i].id = steps[i].id
                        /\ body.steps[i].stepName = steps[i].stepName
                        /\ body.steps[i].stepType = steps[i].stepType
                        /\ body.steps[i].input = steps[i].input
                        /\ body.steps[i].output = steps[i].output
                        /\ body.steps[i].completedAt = steps[i].completedAt
                        /\ body.steps[i].candidatesIn = steps[i].candidatesIn
                        /\ body.steps[i].candidatesOut = steps[i].candidatesOut
                        /\ body.steps[i].candidates = steps[i].candidates
                        /\ body.steps[i].reasoning = steps[i].reasoning
                        /\ body.steps[i].metadata = steps[i].metadata
                        /\ Len(body.steps[i].filtersApplied) = Len(steps[i].filtersApplied)
                        /\ \A j \in 1..Len(steps[i].filtersApplied) :
                              LET sent == body.steps[i].filtersApplied[j]
                                  fa == steps[i].filtersApplied[j]
                              IN  /\ sent.filterName = fa.filterName
                                  /\ sent.candidateBefore = fa.candidateBefore
                                  /\ sent.candidatesAfter = fa.candidatesAfter
                                  /\ fa.eliminationRate.k = "fin" =>
                                        sent.eliminationRate = fa.eliminationRate
      ]_vars

\* C32 witness: a Run completed with one Step that had no input; the Step's
\* input was recorded afterwards, and the payload dispatched still shows the
\* Step as it was.
C32_Witness ==
    /\ Len(outbox) = 1
    /\ outbox[1].body.status = "completed"
    /\ Len(outbox[1].body.steps) = 1
    /\ outbox[1].body.steps[1].input = None
    /\ Len(steps) = 1
    /\ steps[1].input = Some("v1")

\* C26 (as claimed): once the Run's status has left `running`, no call of
\* addStep or of a recording operation changes the Run's Steps or the data
\* recorded on them.
C26_StepsReadOnlyAfterTerminal ==
    [][status # "running" => steps' = steps]_vars

-----------------------------------------------------------------------------
(* Claims: ingestion and query *)

\* rows of a table written by request r
WrittenBy(table, r) == SelectSeq(table, LAMBDA row : row.xmin = r)

\* request r has been answered 201
Succeeded(r) == \E i \in 1..Len(reqs[r].responses) : reqs[r].responses[i].code = 201

\* the rows the body of request r asks for
BodyStepRows(r) == [i \in 1..Len(run(r).steps) |-> StepRow(run(r), run(r).steps[i], r)]
BodyCandidateRows(r) ==
    UNION { { CandidateRow(run(r).steps[i], k, r) : k \in 1..Len(run(r).steps[i].candidates) } :
            i \in 1..Len(run(r).steps) }

\* C2: ingestion of one Run is all-or-nothing.  The committed tables hold no
\* row of a request that has not succeeded, whether it is still running or has
\* failed at any statement; they hold the run row, every step row and every
\* candidate row of a request that has succeeded; and the only step that
\* changes the tables is a successful COMMIT, which appends.
C2_AllOrNothing ==
    [][ /\ \A r \in ReqIds :
              IF Succeeded(r)'
              THEN /\ WrittenBy(dbRuns', r) = <<RunRow(run(r)', r)>>
                   /\ WrittenBy(dbSteps', r) = BodyStepRows(r)'
                   /\ Range(WrittenBy(dbCandidates', r)) = BodyCandidateRows(r)'
                   /\ Len(WrittenBy(dbCandidates', r)) = Cardinality(BodyCandidateRows(r)')
              ELSE /\ WrittenBy(dbRuns', r) = <<>>
                   /\ WrittenBy(dbSteps', r) = <<>>
                   /\ WrittenBy(dbCandidates', r) = <<>>
        /\ <<dbRuns', dbSteps', dbCandidates'>> # <<dbRuns, dbSteps, dbCandidates>> =>
              \E r \in ReqIds :
                  /\ reqs[r].pc = "commit" /\ Succeeded(r)'
                  /\ \A q \in ReqIds \ {r} :
                        /\ WrittenBy(dbRuns', q) = WrittenBy(dbRuns, q)
                        /\ WrittenBy(dbSteps', q) = WrittenBy(dbSteps, q)
                        /\ WrittenBy(dbCandidates', q) = WrittenBy(dbCandidates, q)
      ]_vars

\* C2 witness: a request has failed at its second step row, after its run row,
\* first step row and a candidate row were written, and left nothing behind,
\* while another request's run is stored whole.
C2_Witness ==
    \E r, q \in ReqIds :
        /\ reqs[r].pc = "done" /\ reqs[r].body = "C" /\ reqs[r].si = 2
        /\ reqs[r].error = "null value violates not-null constraint"
        /\ reqs[q].pc = "done" /\ reqs[q].body = "A" /\ Succeeded(q)
        /\ Len(dbRuns) = 1 /\ Len(dbSteps) = 2 /\ Len(dbCandidates) = 3

\* C4 (as claimed): every ingest request that has ended has exactly one
\* response: 201 with success iff its transaction committed, else 500 with
\* success:false.
C4_OneResponse ==
    \A r \in ReqIds :
        reqs[r].pc = "done" =>
            /\ Len(reqs[r].responses) = 1
            /\ LET res == reqs[r].responses[1]
                   committed == WrittenBy(dbRuns, r) # <<>>
               IN  IF committed THEN res.code = 201 /\ res.success
                   ELSE res.code = 500 /\ ~ res.success

C22_ZeroInExcluded ==
    [][ queryRes' # queryRes =>
          LET res == Val(queryRes')
              positive == { s \in Range(dbSteps) :
                              s.candidates_in # None /\ s.candidates_in # Some(0) }
          IN  /\ res.code = 200 /\ res.success
              /\ \A i \in 1..Len(res.data) :
                    /\ res.data[i].candidates_in # None
                    /\ res.data[i].candidates_in # Some(0)
                    /\ \E s \in positive :
                          /\ s.run_id = res.data[i].run_id
                          /\ s.step_name = res.data[i].step_name
                          /\ s.candidates_in = res.data[i].candidates_in
                          /\ s.candidates_out = res.data[i].candidates_out
              /\ Len(res.data) <= Cardinality(positive)
      ]_vars

\* C22 witness: with a run stored whose Steps have candidatesIn 0 (with
\* candidatesOut 0, 2 and absent) or no candidatesIn, and another run stored,
\* a query with threshold 0 has answered 200 with rows of the other run only.
C22_Witness ==
    /\ IsSet(queryRes)
    /\ Val(queryRes).code = 200
    /\ Val(queryRes).threshold = Rate(0, 1)
    /\ \E s \in Range(dbSteps) : s.candidates_in = Some(0) /\ s.candidates_out = Some(2)
    /\ \E s \in Range(dbSteps) : s.candidates_in = Some(0) /\ s.candidates_out = None
    /\ \E s \in Range(dbSteps) : s.run_id = "Z" /\ s.candidates_in = None
    /\ Len(Val(queryRes).data) > 0
    /\ \A i \in 1..Len(Val(queryRes).data) : Val(queryRes).data[i].run_id # "Z"

\* the requests received so far carry runs of different identifiers
DifferentRuns ==
    \A r, q \in ReqIds :
        (r # q /\ reqs[r].body # "none" /\ reqs[q].body # "none") => run(r).id # run(q).id

\* the error the statements of payload p, sent as request r, end with on a
\* store that holds no other run, from the step at i on, `done` being the
\* step rows written before it; "none" when every statement succeeds
RECURSIVE AloneFrom(_, _, _, _)
AloneFrom(p, r, i, done) ==
    IF i > Len(p.steps) THEN "none"
    ELSE LET row == StepRow(p, p.steps[i], r)
             verdict == StepConstraint(row, done, <<RunRow(p, r)>>)
             bad == { k \in 1..Len(p.steps[i].candidates) :
                        CandidateConstraint(CandidateRow(p.steps[i], k, r),
                                            Append(done, row)) # "ok" }
         IN  IF verdict # "ok" THEN verdict
             ELSE IF bad # {}
             THEN CandidateConstraint(CandidateRow(p.steps[i], CHOOSE k \in bad : TRUE, r),
                                      Append(done, row))
             ELSE AloneFrom(p, r, i + 1, Append(done, row))

Alone(p, r) ==
    IF RunConstraint(RunRow(p, r), <<>>) # "ok" THEN RunConstraint(RunRow(p, r), <<>>)
    ELSE AloneFrom(p, r, 1, <<>>)

\* while the requests carry different runs: no INSERT of a request waits for
\* another request's transaction, and a request that has ended with its
\* connection up has the outcome its payload has alone
Isolated ==
    DifferentRuns =>
        \A r \in ReqIds :
            /\ (reqs[r].pc = "insert_run" /\ reqs[r].conn = "ok") =>
                  ~ Locked(r, "runs", run(r).id)
            /\ (reqs[r].pc = "insert_step" /\ reqs[r].conn = "ok") =>
                  ~ Locked(r, "steps", step(r).id)
            /\ (reqs[r].pc = "done" /\ reqs[r].conn = "ok") =>
                  /\ reqs[r].error = Alone(run(r), r)
                  /\ Succeeded(r) <=> Alone(run(r), r) = "none"
                  /\ Len(WrittenBy(dbRuns, r)) = (IF Alone(run(r), r) = "none" THEN 1 ELSE 0)
                  /\ Len(WrittenBy(dbSteps, r)) =
                        (IF Alone(run(r), r) = "none" THEN Len(run(r).steps) ELSE 0)

\* C25: ingestions of Runs of different identifiers do not affect each other.
\* A step of one request (a failure, a ROLLBACK and a lost connection among
\* them) changes neither the state of another request, its uncommitted rows
\* included, nor a committed row of another request; no INSERT waits for
\* another request's transaction; and each request that ends with its
\* connection up commits or fails with the error its payload gets alone.
C25_NoInterference ==
    [][ /\ Isolated'
        /\ \A r, q \in ReqIds :
              (r # q /\ reqs'[r] # reqs[r]) =>
                  /\ reqs'[q] = reqs[q]
                  /\ WrittenBy(dbRuns', q) = WrittenBy(dbRuns, q)
                  /\ WrittenBy(dbSteps', q) = WrittenBy(dbSteps, q)
                  /\ WrittenBy(dbCandidates', q) = WrittenBy(dbCandidates, q)
      ]_vars

\* C25 witness: the ingestion of run C has failed at its second step row and
\* was rolled back while the ingestion of run A holds its run row, both step
\* rows and all three candidate rows in an open transaction, about to commit.
C25_Witness ==
    \E r, q \in ReqIds :
        /\ reqs[r].pc = "done" /\ reqs[r].body = "C" /\ reqs[r].conn = "ok"
        /\ reqs[r].error = "null value violates not-null constraint"
        /\ reqs[q].body = "A" /\ reqs[q].pc = "commit" /\ reqs[q].tx = "open"
        /\ Len(reqs[q].rows.runs) = 1
        /\ Len(reqs[q].rows.steps) = 2
        /\ Len(reqs[q].rows.candidates) = 3
        /\ dbRuns = <<>>

\* C33: a request that has acquired a client holds it, unreleased, until it
\* ends, and has released it exactly once when it has ended, whether its
\* transaction committed, a statement failed and was rolled back, or the
\* ROLLBACK itself failed; a request that got no client releases none.  So
\* when every request has ended no client is held.
C33_ClientReleasedOnce ==
    \A r \in ReqIds :
        /\ reqs[r].released \in {0, 1}
        /\ reqs[r].pc = "new" => (~ reqs[r].held /\ reqs[r].released = 0)
        /\ reqs[r].pc \notin {"new", "done"} => (reqs[r].held /\ reqs[r].released = 0)
        /\ reqs[r].pc = "done" =>
              /\ ~ reqs[r].held
              /\ reqs[r].released = (IF reqs[r].conn = "none" THEN 0 ELSE 1)

\* C33 witness: one request has committed, another lost its connection, failed
\* and could not roll back; both have ended and released their clients once.
C33_Witness ==
    \E r, q \in ReqIds :
        /\ reqs[q].pc = "done" /\ Succeeded(q) /\ reqs[q].released = 1
        /\ reqs[r].pc = "done" /\ reqs[r].conn = "lost"
        /\ reqs[r].error = "Connection terminated"
        /\ reqs[r].responses = <<>>
        /\ reqs[r].released = 1 /\ ~ reqs[r].held

\* old is a prefix of new
IsPrefix(old, new) == Len(old) <= Len(new) /\ SubSeq(new, 1, Len(old)) = old

\* the INSERT statements of payload p from the i-th element of its steps
\* array on: each step row and then the rows of that step's candidates
RECURSIVE StatementsFrom(_, _)
StatementsFrom(p, i) ==
    IF i > Len(p.steps) THEN <<>>
    ELSE (<<[table |-> "steps", step |-> p.steps[i].id, index |-> p.steps[i].stepIndex,
             k |-> 0]>>
          \o [k \in 1..Len(p.steps[i].candidates) |->
                 [table |-> "candidates", step |-> p.steps[i].id, index |-> -1, k |-> k]])
         \o StatementsFrom(p, i + 1)

Statements(p) ==
    <<[table |-> "runs", step |-> <<>>, index |-> -1, k |-> 0]>> \o StatementsFrom(p, 1)

\* the run row comes first, and each candidate row comes right after its
\* step's row or right after the candidate row before it of the same step
RunThenStepThenCandidates(sent) ==
    /\ \A j \in 1..Len(sent) : (sent[j].table = "runs") <=> (j = 1)
    /\ \A j \in 1..Len(sent) :
          sent[j].table = "candidates" =>
              /\ j > 1
              /\ sent[j - 1].step = sent[j].step
              /\ sent[j - 1].k = sent[j].k - 1
              /\ sent[j - 1].table = (IF sent[j].k = 1 THEN "steps" ELSE "candidates")
    /\ \A i, j \in 1..Len(sent) :
          (i # j /\ sent[i].table = "steps" /\ sent[j].table = "steps") =>
              sent[i].step # sent[j].step

\* the step rows come in ascending order of step_index
AscendingIndex(sent) ==
    \A i, j \in 1..Len(sent) :
        (i < j /\ sent[i].table = "steps" /\ sent[j].table = "steps") =>
            sent[i].index < sent[j].index

\* C29 (as claimed): the INSERT statements of one ingestion are the run row,
\* then for each Step in ascending index order the step row immediately
\* followed by that Step's candidate rows.
C29_AscendingIndexOrder ==
    \A r \in ReqIds :
        RunThenStepThenCandidates(reqs[r].issued) /\ AscendingIndex(reqs[r].issued)

\* C29 (amended): the INSERT statements of one ingestion are the run row, then
\* for each Step in the order of the payload's steps array the step row
\* immediately followed by that Step's candidate rows in the order of the
\* Step's candidates array; all of them when the ingestion commits.  That is
\* ascending index order when the array is in index order.  No step row is
\* sent before the run row and no candidate row before its step row.
C29_PayloadOrder ==
    \A r \in ReqIds :
        /\ reqs[r].body # "none" => IsPrefix(reqs[r].issued, Statements(run(r)))
        /\ Succeeded(r) => reqs[r].issued = Statements(run(r))
        /\ RunThenStepThenCandidates(reqs[r].issued)
        /\ (reqs[r].body # "none" /\ AscendingIndex(Statements(run(r)))) =>
              AscendingIndex(reqs[r].issued)

\* C29 witness: the ingestion of run D, whose steps array lists index 1 (one
\* candidate) before index 0 (three candidates), has committed after the
\* statements run, step 1, candidate, step 0, candidate, candidate, candidate.
C29_Witness ==
    \E r \in ReqIds :
        /\ reqs[r].body = "D" /\ Succeeded(r)
        /\ Len(reqs[r].issued) = 7
        /\ reqs[r].issued[2].table = "steps" /\ reqs[r].issued[2].index = 1
        /\ reqs[r].issued[3].table = "candidates"
        /\ reqs[r].issued[4].table = "steps" /\ reqs[r].issued[4].index = 0
        /\ reqs[r].issued[7].table = "candidates" /\ reqs[r].issued[7].k = 3

\* C13: a stored Run is never changed.  No step changes or removes a committed
\* row, and the table never holds two runs of one identifier.  A request whose
\* INSERT INTO runs carries an identifier that is already stored fails with
\* the primary key violation; from then on it is never answered 201, none of
\* its rows is ever committed, every response it gets is a failure response
\* (the handler's carries the violation), and the handler answers as soon as
\* its ROLLBACK has run.
C13_StoredRunNeverChanges ==
    [][ /\ IsPrefix(dbRuns, dbRuns')
        /\ IsPrefix(dbSteps, dbSteps')
        /\ IsPrefix(dbCandidates, dbCandidates')
        /\ \A i, j \in 1..Len(dbRuns') : dbRuns'[i].id = dbRuns'[j].id => i = j
        /\ \A r \in ReqIds :
              /\ ( /\ reqs[r].pc = "insert_run" /\ reqs[r].conn = "ok"
                    /\ reqs'[r].pc # "insert_run"
                    /\ \E row \in Range(dbRuns) : row.id = run(r).id ) =>
                    /\ reqs'[r].error = "duplicate key value violates runs_pkey"
                    /\ reqs'[r].pc = "rollback"
                    /\ UNCHANGED dbVars
              /\ reqs'[r].error = "duplicate key value violates runs_pkey" =>
                    /\ ~ Succeeded(r)'
                    /\ WrittenBy(dbRuns', r) = <<>>
                    /\ WrittenBy(dbSteps', r) = <<>>
                    /\ WrittenBy(dbCandidates', r) = <<>>
                    /\ \A i \in 1..Len(reqs'[r].responses) :
                          LET res == reqs'[r].responses[i]
                          IN  /\ res.code = 500 /\ ~ res.success
                              /\ res.by = "handler" =>
                                    res.error = "duplicate key value violates runs_pkey"
                    /\ (reqs[r].pc = "rollback" /\ reqs[r].conn = "ok" /\ reqs'[r].pc = "done") =>
                          /\ Len(reqs'[r].responses) = 1
                          /\ reqs'[r].responses[1].by = "handler"
      ]_vars

\* C13 witness: the run of body A is stored whole by one request; a second
\* delivery of the same body has been answered 500 with the primary key
\* violation and the tables hold the first delivery's rows only.
C13_Witness ==
    \E r, q \in ReqIds :
        /\ reqs[q].pc = "done" /\ reqs[q].body = "A" /\ Succeeded(q)
        /\ reqs[r].pc = "done" /\ reqs[r].body = "A"
        /\ reqs[r].error = "duplicate key value violates runs_pkey"
        /\ Len(reqs[r].responses) = 1 /\ reqs[r].responses[1].code = 500
        /\ Len(dbRuns) = 1 /\ Len(dbSteps) = 2 /\ Len(dbCandidates) = 3
        /\ WrittenBy(dbRuns, q) = dbRuns

-----------------------------------------------------------------------------
(* Claims: fetch and list *)

\* the GET /runs/:id request has been answered in this step
Fetched == fetch' # fetch /\ fetch'.pc = "done"

\* C14: with fetches interleaving with the statements of ingestions, a fetch
\* answered 200 carries every Step and every Candidate of the payload whose
\* ingestion stored the Run, and a fetch answered 404 found no run row of
\* that identifier; the only other answer is the server error.
C14_NoPartialAggregate ==
    [][ Fetched =>
          LET res == Val(fetch'.response)
          IN  /\ res.code \in {200, 404, 500}
              /\ res.code = 404 => ~ \E row \in Range(dbRuns) : row.id = fetch'.id
              /\ res.code = 200 =>
                    \E q \in ReqIds :
                        LET sent == run(q).steps
                            got == Val(res.data).steps
                        IN  /\ Succeeded(q)
                            /\ run(q).id = fetch'.id
                            /\ Val(res.data).id = run(q).id
                            /\ Len(got) = Len(sent)
                            /\ \A i \in 1..Len(sent) :
                                  \E k \in 1..Len(got) :
                                      /\ got[k].id = sent[i].id
                                      /\ Len(got[k].candidates) = Len(sent[i].candidates)
                                      /\ \A c \in Range(sent[i].candidates) :
                                            \E d \in Range(got[k].candidates) :
                                                /\ d.candidate_data = c.data
                                                /\ d.status = c.status
      ]_vars

\* C14 witness: a fetch of run D made while D's transaction had written its
\* rows and had not committed was answered 404.
C14_Witness ==
    /\ fetch.pc = "done"
    /\ fetch.id = "D"
    /\ Val(fetch.response).code = 404
    /\ \E r \in ReqIds :
          /\ reqs[r].body = "D" /\ reqs[r].pc = "commit"
          /\ Len(reqs[r].rows.steps) = 2 /\ Len(reqs[r].rows.candidates) = 4

\* C15 (as claimed): a fetch of an identifier that is the identifier of no
\* stored Run is answered 404 with success:false and "Run not found" whatever
\* the form of the identifier, unless the store could not be reached.
C15_NotFoundNever500 ==
    ( /\ fetch.pc = "done"
      /\ fetch.id \notin { Body(b).id : b \in FetchBodies }
      /\ Val(fetch.response).error # "Connection terminated" ) =>
        Val(fetch.response) = NotFound

\* C16: a fetch answered 200 returns the stored run row, every step row of
\* that run once, in ascending index order, and with each step exactly the
\* candidate rows whose step_id is that step's id, each once.
C16_StepsInOrderWithOwnCandidates ==
    [][ (Fetched /\ Val(fetch'.response).code = 200) =>
          LET data == Val(Val(fetch'.response).data)
              got == data.steps
              mine == { s \in Range(dbSteps) : s.run_id = fetch'.id }
          IN  /\ \E row \in Range(dbRuns) :
                    /\ row.id = fetch'.id
                    /\ \A c \in DOMAIN Columns(row) : data[c] = row[c]
              /\ Len(got) = Cardinality(mine)
              /\ { got[k].id : k \in 1..Len(got) } = { s.id : s \in mine }
              /\ \A k \in 1..(Len(got) - 1) : got[k].step_index <= got[k + 1].step_index
              /\ \A k \in 1..Len(got) :
                    LET own == { c \in Range(dbCandidates) : c.step_id = got[k].id }
                    IN  /\ Len(got[k].candidates) = Cardinality(own)
                        /\ Range(got[k].candidates) = { Columns(c) : c \in own }
                        /\ \E s \in mine :
                              \A c \in DOMAIN Columns(s) : got[k][c] = s[c]
      ]_vars

\* C16 witness: with runs A and D stored, a fetch of D, whose steps were sent
\* against their index order, has returned step 0 with its three candidates
\* and then step 1 with its one.
C16_Witness ==
    /\ fetch.pc = "done"
    /\ fetch.id = "D"
    /\ Val(fetch.response).code = 200
    /\ Len(dbRuns) = 2
    /\ LET got == Val(Val(fetch.response).data).steps
       IN  /\ Len(got) = 2
           /\ got[1].step_index = 0 /\ Len(got[1].candidates) = 3
           /\ got[2].step_index = 1 /\ Len(got[2].candidates) = 1

\* C35 (as claimed): the stored record of a Run is that of its first terminal
\* call: a committed row of the Run's identifier holds the status, output and
\* metadata of the payload the first complete or fail dispatched, in whatever
\* order the deliveries were received.
C35_FirstTerminalStored ==
    \A i \in 1..Len(dbRuns) :
        (dbRuns[i].id = RunId /\ Len(outbox) >= 1) =>
            LET first == outbox[1].body
            IN  /\ dbRuns[i].status = first.status
                /\ dbRuns[i].output = stringifyOrNull(first.output)
                /\ dbRuns[i].metadata = first.metadata

\* C19 (as claimed): the opaque values fetched back are the values sent: a
\* fetch answered 200 returns, for the payload that stored the Run, the
\* payload's input, output and metadata of the Run and of each of its Steps.
C19_OpaqueValuesKept ==
    (fetch.pc = "done" /\ Val(fetch.response).code = 200) =>
        \E q \in ReqIds :
            LET sent == run(q)
                got == Val(Val(fetch.response).data)
            IN  /\ Succeeded(q)
                /\ sent.id = fetch.id
                /\ got.input = sent.input
                /\ got.output = sent.output
                /\ got.metadata = sent.metadata
                /\ \A i \in 1..Len(sent.steps) :
                      \E k \in 1..Len(got.steps) :
                          /\ got.steps[k].id = sent.steps[i].id
                          /\ got.steps[k].input = sent.steps[i].input
                          /\ got.steps[k].output = sent.steps[i].output
                          /\ got.steps[k].metadata = sent.steps[i].metadata

\* C17: the page query returns, of the stored runs that equal every given
\* filter, ordered by start time most recent first (in some order among equal
\* start times), those at positions (page-1)*limit+1 .. page*limit; the count
\* query returns the number of all those runs; the response carries that page,
\* page and limit as given (1 and 20 when not given), that total, and
\* totalPages = ceil(total/limit).
C17_ListPage ==
    [][ list' # list =>
          LET l == list'
              q == l.query
              M == { Columns(r) : r \in { x \in Range(dbRuns) :
                        /\ q.pipelineName # None => x.pipeline_name = q.pipelineName[1]
                        /\ q.status # None => x.status = q.status[1] } }
              n == Cardinality(M)
              orders == { f \in [1..n -> M] :
                            /\ \A i, j \in 1..n : f[i] = f[j] => i = j
                            /\ \A i \in 1..(n - 1) : f[i].started_at >= f[i + 1].started_at }
              off == (l.page - 1) * l.limit
              size == IF n - off <= 0 THEN 0 ELSE IF n - off <= l.limit THEN n - off ELSE l.limit
              res == Val(l.response)
          IN  /\ (q.page = Some("1") => l.page = 1) /\ (q.page = Some("2") => l.page = 2)
              /\ (q.page = None => l.page = 1)
              /\ (q.limit = Some("1") => l.limit = 1) /\ (q.limit = Some("2") => l.limit = 2)
              /\ (q.limit = None => l.limit = 20)
              /\ (IsSet(l.rows) /\ ~ (list.pc = "pending" /\ IsSet(list.rows))) =>
                    \E f \in orders : Val(l.rows) = [i \in 1..size |-> f[off + i]]
              /\ (IsSet(l.total) /\ ~ (list.pc = "pending" /\ IsSet(list.total))) =>
                    Val(l.total) = n
              /\ (l.pc = "done" /\ l.page >= 1 /\ l.limit >= 1) =>
                    (res.code = 200 \/ res.error = "Connection terminated")
              /\ (l.pc = "done" /\ res.code = 200) =>
                    LET pg == Val(res.data).pagination
                    IN  /\ res.success
                        /\ IsSet(l.rows) /\ Val(res.data).runs = Val(l.rows)
                        /\ pg.page = l.page /\ pg.limit = l.limit
                        /\ IsSet(l.total) /\ pg.total = Val(l.total)
                        /\ pg.totalPages * l.limit >= pg.total
                        /\ (pg.totalPages - 1) * l.limit < pg.total
      ]_vars

\* C17 witness: with run D (the most recent) and an older run stored, page 2
\* of limit 1 without filters has returned the older run, total 2 and
\* totalPages 2.
C17_Witness ==
    /\ list.pc = "done"
    /\ list.query = [page |-> Some("2"), limit |-> Some("1"), pipelineName |-> None,
                     status |-> None]
    /\ Val(list.response).code = 200
    /\ LET data == Val(Val(list.response).data)
       IN  /\ Len(data.runs) = 1
           /\ data.runs[1].id # "D"
           /\ data.runs[1].started_at = 0
           /\ data.pagination.total = 2
           /\ data.pagination.totalPages = 2
    /\ \E r \in Range(dbRuns) : r.id = "D"

\* C34 (as claimed): the total of a List response is the number of runs that
\* matched the filters in the store state from which its page was read.
C34_TotalOfPageState ==
    (list.pc = "done" /\ Val(list.response).code = 200) =>
        Val(Val(list.response).data).pagination.total = Val(list.matching)

\* C18: round trip.  A fetch answered 200 for the Run's identifier returns,
\* for the payload the SDK dispatched and POST /runs stored, the payload's
\* pipeline name and status, as many Steps as the payload has, in the
\* payload's (index) order, and each Step's candidatesIn and candidatesOut;
\* and the payload is the Run as it was when the terminal call built it.
C18_RoundTrip ==
    [][ (Fetched /\ Val(fetch'.response).code = 200) =>
          \E q \in ReqIds :
              LET sent == outbox[q].body
                  got == Val(Val(fetch'.response).data)
              IN  /\ Succeeded(q)
                  /\ reqs[q].body = "sdk"
                  /\ got.id = RunId /\ sent.id = RunId
                  /\ got.pipeline_name = PipelineName /\ sent.pipelineName = PipelineName
                  /\ got.status = sent.status
                  /\ sent.status \in {"completed", "failed"}
                  /\ Len(got.steps) = Len(sent.steps)
                  /\ Len(sent.steps) <= Len(steps)
                  /\ \A i \in 1..Len(sent.steps) :
                        /\ got.steps[i].id = sent.steps[i].id
                        /\ sent.steps[i].id = steps[i].id
                        /\ got.steps[i].step_index = sent.steps[i].stepIndex
                        /\ got.steps[i].step_index = i - 1
                        /\ got.steps[i].candidates_in = sent.steps[i].candidatesIn
                        /\ got.steps[i].candidates_out = sent.steps[i].candidatesOut
      ]_vars

\* C18 witness: a Run with one Step that filtered 3 candidates down to 1 has
\* failed, was ingested and is fetched back failed with that Step, 3 in, 1 out.
C18_Witness ==
    /\ status = "failed"
    /\ fetch.pc = "done"
    /\ fetch.id = RunId
    /\ Val(fetch.response).code = 200
    /\ LET got == Val(Val(fetch.response).data)
       IN  /\ got.status = "failed"
           /\ Len(got.steps) = 1
           /\ got.steps[1].candidates_in = Some(3)
           /\ got.steps[1].candidates_out = Some(1)
           /\ Len(got.steps[1].candidates) = 2

====
